---- MODULE Spec2Model ----
(***************************************************************************)
(* Slot-based declaration repair engine of run.js: the assignment          *)
(* evaluator with its run-wide cache (evalWithAssignment), the scoring     *)
(* (computeScore, countErrors, countTrivialSelected, classify), the slot   *)
(* selection (chooseSlotToFix) and the greedy repair loop (repairProject), *)
(* together with the files of the consumer project that one evaluation     *)
(* touches (tsconfig.json, tsconfig.json.bak, tsconfig.injected.json).     *)
(***************************************************************************)
EXTENDS Integers, Sequences, FiniteSets, TLC

VARIABLES
    preds,        \* predictions/<project>.json: libName, exports, slots
    opts,         \* parseLegacyArgs: topk, maxIters, trivialPenalty
    tsc,          \* what the consumer project makes the checker answer
    disk,         \* consumer project files: tsconfig, bak, injected
    cache,        \* legacyEval: const cache = new Map()
    pc,           \* position in legacyEval / repairProject
    baseline,     \* result of the baseline evaluation
    current,      \* repairProject: let current
    best,         \* repairProject: let best
    improved,     \* repairProject: let improved
    exhausted,    \* repairProject: const exhausted = new Set()
    iter,         \* repairProject: loop counter
    slotId,       \* repairProject: slot selected in this iteration
    k,            \* repairProject: const k
    candIdx,      \* repairProject: inner loop counter
    final,        \* value returned by repairProject
    tscRuns,      \* history: checker invocations per cache key
    evalCalls,    \* history: evalWithAssignment calls per cache key
    firstEval,    \* history: result of the first call per cache key
    lastEval,     \* history: the latest evalWithAssignment call
    iterEvals,    \* history: statuses of the alternatives of this iteration
    lowerSeen,    \* history: some alternative scored below the baseline
    runMode,      \* main: "legacy", "repair" (--repair) or "manifest"
    projects,     \* the projects the run has still to process
    project,      \* the project being processed
    results,      \* legacy / manifest mode: const results = []
    baselineOut,  \* legacyEval: const baselineOut = []
    repairedOut,  \* legacyEval: const repairedOut = []
    lastRun,      \* history: the latest checker run and its classification
    nm,           \* the consumer's node_modules/@types of a scenario
    scenario,     \* scenario.json: what its predictedDtsPath points at
    rows,         \* runScenarioEval: const results = []
    runNo,        \* which run of the scenario evaluation this is
    firstRun,     \* history: the rows of the first run
    lastScenario, \* history: the latest evalScenarioOnce call
    experiment,   \* runExperiment: matrix.conditions and --resume
    outFiles,     \* <out>/<id>/summary.json and results.eval.jsonl, per id
    outFilesBefore, \* history: outFiles when runExperiment began
    condIdx,      \* runExperiment: position in the loop over conditions
    condLog,      \* history: what the loop did with each condition
    aggregate,    \* <out>/aggregate.json: its conditions
    cmd           \* one runCommand invocation: child, timers, closure

vars == <<preds, opts, tsc, disk, cache, pc, baseline, current, best,
          improved, exhausted, iter, slotId, k, candIdx, final,
          tscRuns, evalCalls, firstEval, lastEval, iterEvals, lowerSeen,
          runMode, projects, project, results, baselineOut, repairedOut,
          lastRun, nm, scenario, rows, runNo, firstRun, lastScenario,
          experiment, outFiles, outFilesBefore, condIdx, condLog, aggregate,
          cmd>>

\* the state of the loop over the projects that one evaluation leaves alone
runVars == <<runMode, projects, project, results, repairedOut>>

\* the state of the scenario evaluation
scenarioVars == <<nm, scenario, rows, runNo, firstRun, lastScenario>>

\* the state of the experiment runner
experimentVars == <<experiment, outFiles, outFilesBefore, condIdx, condLog,
                    aggregate>>

\* what the legacy and repair modes leave alone
benchVars == <<scenarioVars, experimentVars, cmd>>

\* no runCommand invocation is being followed
IdleCommand == [started |-> FALSE]

CommandIdle == cmd = IdleCommand

(***************************************************************************)
(* Bounds of the model.                                                     *)
(***************************************************************************)
MaxTopK == 3
MaxItersBound == 3
MaxKeyIndex == 11

(***************************************************************************)
(* Values standing for JavaScript's undefined / -Infinity / null.           *)
(***************************************************************************)
NoSlot == ""
NoResult == [status |-> "none"]
NoCode == << >>
Infinity == 1000000
NullExit == -1
Absent == [missing |-> TRUE]
NoRun == [fn |-> "none"]

(***************************************************************************)
(* Paths.                                                                   *)
(***************************************************************************)
ProjectPath == "/work/projects/proj"
ProjectName == "proj"
DtsPath == "/work/runs/r-repair/generated-dts/proj/index.d.ts"
RelDtsPath == "../../runs/r-repair/generated-dts/proj/index.d.ts"
ConsumerFile == "/work/projects/proj/src/index.ts"
RelConsumerFile == "src/index.ts"

\* path.isAbsolute and path.resolve(cwd, raw) on the paths the checker prints
IsAbsolute(raw) == raw \in {DtsPath, ConsumerFile}
PathResolve(cwd, raw) ==
    IF cwd = ProjectPath /\ raw = RelDtsPath THEN DtsPath
    ELSE IF cwd = ProjectPath /\ raw = RelConsumerFile THEN ConsumerFile
    ELSE raw

\* error codes TSdddd, as their four digits
TS18003 == <<1, 8, 0, 0, 3>>
TS7016 == <<7, 0, 1, 6>>
TS2322 == <<2, 3, 2, 2>>
TS2339 == <<2, 3, 3, 9>>
TS5083 == <<5, 0, 8, 3>>

(***************************************************************************)
(* Prediction files (the ranked candidate lists; scores in hundredths).     *)
(***************************************************************************)
Cand(t, s) == [type |-> t, score |-> s]
FnExport(n, ps) == [name |-> n, kind |-> "function", params |-> ps]

\* fixtures/repair-project: one function, one return slot, the passing
\* non-trivial candidate before the trivial one
PredsFixture ==
    [libName |-> "lib",
     exports |-> << FnExport("getX", <<>>) >>,
     slots   |-> << [slotId |-> "getX:return",
                     candidates |-> << Cand("string", 90),
                                       Cand("{ foo: number }", 50),
                                       Cand("any", 10) >>] >>]

\* the same project with the trivial candidate ranked second
PredsTrivialFirst ==
    [libName |-> "lib",
     exports |-> << FnExport("getX", <<>>) >>,
     slots   |-> << [slotId |-> "getX:return",
                     candidates |-> << Cand("string", 90),
                                       Cand(" any ", 50),
                                       Cand("{ foo: number }", 10) >>] >>]

\* two functions; f has a parameter slot and a return slot with a single
\* candidate, g a return slot with three
PredsTwo ==
    [libName |-> "lib",
     exports |-> << FnExport("f", <<"x">>),
                    [name |-> "VERSION", kind |-> "const", params |-> <<>>],
                    FnExport("g", <<>>) >>,
     slots   |-> << [slotId |-> "f:param:0",
                     candidates |-> << Cand("string", 60),
                                       Cand("number", 50) >>],
                    [slotId |-> "f:return",
                     candidates |-> << Cand("void", 80) >>],
                    [slotId |-> "g:return",
                     candidates |-> << Cand("string", 90),
                                       Cand("{ foo: number }", 80),
                                       Cand("unknown", 10) >>] >>]

\* no slot at all
PredsEmpty ==
    [libName |-> "lib",
     exports |-> << FnExport("getX", <<>>) >>,
     slots   |-> << >>]

\* a return slot for which no candidate was predicted, next to one with three
PredsBare ==
    [libName |-> "lib",
     exports |-> << FnExport("f", <<>>), FnExport("g", <<>>) >>,
     slots   |-> << [slotId |-> "f:return",
                     candidates |-> << >>],
                    [slotId |-> "g:return",
                     candidates |-> << Cand("string", 90),
                                       Cand("number", 50),
                                       Cand("unknown", 10) >>] >>]

PredsSet == {PredsFixture, PredsTrivialFirst, PredsTwo, PredsEmpty, PredsBare}

SlotIds(p) == {p.slots[i].slotId : i \in 1..Len(p.slots)}

\* (preds.slots ?? []).find((s) => s.slotId === slotId): index or 0
FindSlot(p, sid) ==
    IF sid \in SlotIds(p)
    THEN CHOOSE i \in 1..Len(p.slots) :
            /\ p.slots[i].slotId = sid
            /\ \A j \in 1..(i - 1) : p.slots[j].slotId # sid
    ELSE 0

(***************************************************************************)
(* Output of the checker process: a sequence of lines.                      *)
(*   diag    <path>(<line>,<col>): error <CODE>: ...                        *)
(*   global  error <CODE>: ...                                              *)
(*   text    anything without an error code                                 *)
(***************************************************************************)
DiagLine(f, l, c) == [form |-> "diag", filePath |-> f, line |-> l, code |-> c]
GlobalLine(c) == [form |-> "global", filePath |-> "", line |-> 0, code |-> c]
TextLine == [form |-> "text", filePath |-> "", line |-> 0, code |-> NoCode]

\* what runCommand resolves with: exitCode, timedOut, stdout (output), stderr
OutcomeWithStderr(e, t, o, err) ==
    [exitCode |-> e, timedOut |-> t, output |-> o, stderr |-> err]

Outcome(e, t, o) == OutcomeWithStderr(e, t, o, <<>>)

TscPass == Outcome(0, FALSE, <<>>)
TscErrDts == Outcome(2, FALSE, << DiagLine(RelDtsPath, 3, TS2322) >>)
TscErrConsumer == Outcome(2, FALSE, << DiagLine(RelConsumerFile, 7, TS2339) >>)
TscErrTwo == Outcome(2, FALSE, << DiagLine(ConsumerFile, 7, TS2339),
                                  DiagLine(DtsPath, 5, TS2322) >>)
TscConfig == Outcome(2, FALSE, << GlobalLine(TS5083) >>)
TscTimeout == Outcome(NullExit, TRUE, <<>>)
TscTimeoutLate == Outcome(NullExit, TRUE,
                          << DiagLine(RelConsumerFile, 7, TS2339) >>)
TscCrash == Outcome(1, FALSE, << TextLine >>)

TscOutcomes == {TscPass, TscErrDts, TscErrConsumer, TscErrTwo, TscConfig,
                TscTimeout, TscTimeoutLate, TscCrash}

\* further outcomes: a warning of the launcher on stderr before the
\* diagnostics on stdout, a code in the output of a passing run, a timer
\* that fires as the checker exits with 0, a five-digit code, a spawn error
TscErrWarned == OutcomeWithStderr(2, FALSE,
                                  << DiagLine(RelConsumerFile, 7, TS2339) >>,
                                  << TextLine >>)
TscPassWithCode == Outcome(0, FALSE, << GlobalLine(TS2322) >>)
TscTimeoutExit0 == Outcome(0, TRUE, <<>>)
TscNoInputs == Outcome(2, FALSE, << GlobalLine(TS18003) >>)
TscSpawnError == OutcomeWithStderr(1, FALSE, <<>>, << TextLine >>)

RunOutcomes == TscOutcomes \cup {TscErrWarned, TscPassWithCode,
                                 TscTimeoutExit0, TscNoInputs, TscSpawnError}

\* outcomes in which the checker ran to the end and reported type errors
TscTypeErrors == {TscErrDts, TscErrConsumer, TscErrTwo}

(***************************************************************************)
(* Pure helpers of run.js.                                                  *)
(***************************************************************************)
\* firstErrorCode: the first TS\d{4} of the combined output
RECURSIVE firstErrorCode(_)
firstErrorCode(output) ==
    IF output = <<>> THEN NoCode
    ELSE IF output[1].code # NoCode THEN SubSeq(output[1].code, 1, 4)
    ELSE firstErrorCode(Tail(output))

Statuses == {"success", "type_error", "config_error", "other_error"}

\* /^TS(50|180)/.test(errorCode)
IsConfigCode(errorCode) ==
    \/ (errorCode[1] = 5 /\ errorCode[2] = 0)
    \/ (errorCode[1] = 1 /\ errorCode[2] = 8 /\ errorCode[3] = 0)

\* run.ts: classify(exitCode, errorCode, timedOut): Status
classifyTs(exitCode, errorCode, timedOut) ==
    IF timedOut THEN "other_error"
    ELSE IF exitCode = 0 THEN "success"
    ELSE IF errorCode # NoCode /\ IsConfigCode(errorCode) THEN "config_error"
    ELSE IF errorCode # NoCode THEN "type_error"
    ELSE "other_error"

\* a plausible slip: the exit code is looked at before the timeout flag
classifyExitCodeFirst(exitCode, errorCode, timedOut) ==
    IF exitCode = 0 THEN "success"
    ELSE IF timedOut THEN "other_error"
    ELSE IF errorCode # NoCode /\ IsConfigCode(errorCode) THEN "config_error"
    ELSE IF errorCode # NoCode THEN "type_error"
    ELSE "other_error"

\* classify(exitCode, errorCode, timedOut)
classify(exitCode, errorCode, timedOut) ==
    IF timedOut THEN "other_error"
    ELSE IF exitCode = 0 THEN "success"
    ELSE IF errorCode # NoCode /\ IsConfigCode(errorCode) THEN "config_error"
    ELSE IF errorCode # NoCode THEN "type_error"
    ELSE "other_error"

\* countErrors: matches of /error TS\d{4}:/g
RECURSIVE countErrors(_)
countErrors(output) ==
    IF output = <<>> THEN 0
    ELSE (IF output[1].form \in {"diag", "global"} /\ Len(output[1].code) = 4
          THEN 1 ELSE 0)
         + countErrors(Tail(output))

\* parseDiagnostics(output, cwd): the lines <path>(l,c): error TSdddd:
RECURSIVE parseDiagnostics(_, _)
parseDiagnostics(output, cwd) ==
    IF output = <<>> THEN <<>>
    ELSE LET l == output[1]
             rest == parseDiagnostics(Tail(output), cwd)
         IN IF l.form = "diag" /\ Len(l.code) = 4
            THEN << [filePath |-> IF IsAbsolute(l.filePath) THEN l.filePath
                                  ELSE PathResolve(cwd, l.filePath),
                     line |-> l.line,
                     code |-> l.code] >> \o rest
            ELSE rest

\* String(t).trim() on the type spellings of the prediction files
Trim(t) == IF t = " any " THEN "any" ELSE t

isTrivialType(t) ==
    LET s == Trim(t)
    IN s = "any" \/ s = "Function" \/ s = "any[]" \/ s = "unknown" \/ s = "object"

\* assignment[s.slotId] ?? 0
IndexOf(assignment, sid) ==
    IF sid \in DOMAIN assignment THEN assignment[sid] ELSE 0

\* countTrivialSelected(preds, assignment)
RECURSIVE CountTrivialFrom(_, _, _)
CountTrivialFrom(slots, assignment, i) ==
    IF i > Len(slots) THEN 0
    ELSE LET idx == IndexOf(assignment, slots[i].slotId)
             cands == slots[i].candidates
         IN (IF idx + 1 \in 1..Len(cands) /\ isTrivialType(cands[idx + 1].type)
             THEN 1 ELSE 0)
            + CountTrivialFrom(slots, assignment, i + 1)

countTrivialSelected(p, assignment) == CountTrivialFrom(p.slots, assignment, 1)

\* a plausible slip: the penalty is left out of a passing score
computeScoreNoPenaltyOnSuccess(status, errorCount, trivialCount, penaltyWeight) ==
    LET penalty == penaltyWeight * trivialCount
    IN IF status = "success" THEN 0 ELSE errorCount + penalty

\* computeScore(status, errorCount, trivialCount, penaltyWeight)
computeScore(status, errorCount, trivialCount, penaltyWeight) ==
    LET penalty == penaltyWeight * trivialCount
    IN IF status = "success" THEN 0 + penalty ELSE errorCount + penalty

\* initialAssignment(preds, topk)
initialAssignment(p, topk) == [sid \in SlotIds(p) |-> 0]

(***************************************************************************)
(* assignmentKey: Object.keys(assignment).sort(), then k=v joined by "&".   *)
(* SlotIdOrder is the code-unit order of the slot ids of the prediction     *)
(* files above, which is the order sort() puts them in.                     *)
(***************************************************************************)
SlotIdOrder == << "f:param:0", "f:return", "g:return", "getX:return" >>

SortedKeys(assignment) ==
    LET InKeys(sid) == sid \in DOMAIN assignment
    IN SelectSeq(SlotIdOrder, InKeys)

RECURSIVE JoinPairs(_, _, _)
JoinPairs(keys, assignment, i) ==
    IF i > Len(keys) THEN ""
    ELSE (IF i > 1 THEN "&" ELSE "")
         \o keys[i] \o "=" \o ToString(assignment[keys[i]])
         \o JoinPairs(keys, assignment, i + 1)

\* a plausible slip: only the first pair is encoded
AssignmentKeyFirstPair(assignment) ==
    LET keys == SortedKeys(assignment)
    IN IF keys = <<>> THEN ""
       ELSE keys[1] \o "=" \o ToString(assignment[keys[1]])

assignmentKey(assignment) ==
    JoinPairs(SortedKeys(assignment), assignment, 1)

\* evalWithAssignment: const key = ...
CacheKey(projectName, assignment, o) ==
    projectName \o "|" \o assignmentKey(assignment)
        \o "|k=" \o ToString(o.topk) \o "|pen=" \o ToString(o.trivialPenalty)

(***************************************************************************)
(* buildDtsFromPreds: the slot-to-line map, in insertion order.             *)
(***************************************************************************)
\* `${exp.name}:param:${idx}`
ParamSlot(name, idx) == name \o ":param:" \o ToString(idx)

\* the lines pushed for the exports from the i-th on: a marker comment and
\* a declaration per function
RECURSIVE DtsBodyFrom(_, _)
DtsBodyFrom(exports, i) ==
    IF i > Len(exports) THEN <<>>
    ELSE IF exports[i].kind # "function" THEN DtsBodyFrom(exports, i + 1)
    ELSE << [kind |-> "comment", text |-> exports[i].name \o ":return"],
            [kind |-> "function", text |-> exports[i].name] >>
         \o DtsBodyFrom(exports, i + 1)

\* the lines of the generated declaration file
DtsLines(p) ==
    << [kind |-> "open", text |-> p.libName] >>
       \o DtsBodyFrom(p.exports, 1)
       \o << [kind |-> "close", text |-> ""] >>

\* a plausible slip: the line counter advances once per function
RECURSIVE SlotLinesFromOneLinePerFunction(_, _, _)
SlotLinesFromOneLinePerFunction(exports, i, lineNo) ==
    IF i > Len(exports) THEN <<>>
    ELSE IF exports[i].kind # "function"
         THEN SlotLinesFromOneLinePerFunction(exports, i + 1, lineNo)
    ELSE << [slotId |-> exports[i].name \o ":return",
             commentLine |-> (lineNo + 1) - 1,
             declLine |-> lineNo + 1] >>
         \o SlotLinesFromOneLinePerFunction(exports, i + 1, lineNo + 1)

RECURSIVE SlotLinesFrom(_, _, _)
SlotLinesFrom(exports, i, lineNo) ==
    IF i > Len(exports) THEN <<>>
    ELSE IF exports[i].kind # "function"
         THEN SlotLinesFrom(exports, i + 1, lineNo)
    ELSE << [slotId |-> exports[i].name \o ":return",
             commentLine |-> (lineNo + 1) - 1,
             declLine |-> lineNo + 1] >>
         \o SlotLinesFrom(exports, i + 1, lineNo + 2)

buildSlotLineMap(p) == SlotLinesFrom(p.exports, 1, 2)

(***************************************************************************)
(* chooseSlotToFix(current, preds, result)                                  *)
(***************************************************************************)
\* Object.keys(slotLineMap).find(...): first mapped slot on that line
SlotOnLine(slotLineMap, line) ==
    LET hits == {i \in 1..Len(slotLineMap) :
                    \/ slotLineMap[i].declLine = line
                    \/ slotLineMap[i].commentLine = line}
    IN IF hits = {} THEN NoSlot
       ELSE slotLineMap[CHOOSE i \in hits : \A j \in hits : i <= j].slotId

RECURSIVE FirstDiagSlot(_, _, _)
FirstDiagSlot(diags, dtsPath, slotLineMap) ==
    IF diags = <<>> THEN NoSlot
    ELSE LET d == diags[1]
             sid == IF d.filePath # dtsPath THEN NoSlot
                    ELSE SlotOnLine(slotLineMap, d.line)
         IN IF sid # NoSlot THEN sid
            ELSE FirstDiagSlot(Tail(diags), dtsPath, slotLineMap)

Gap(slot) ==
    LET c0 == IF Len(slot.candidates) >= 1 THEN slot.candidates[1].score ELSE 0
    IN IF Len(slot.candidates) >= 2 THEN c0 - slot.candidates[2].score
       ELSE Infinity

\* a plausible slip: the fallback passes over the slots already exhausted
FallbackSlotSkippingExhausted(p) ==
    LET idx == {i \in 1..Len(p.slots) : p.slots[i].slotId \notin exhausted}
    IN IF idx = {} THEN NoSlot
       ELSE LET m == CHOOSE i \in idx :
                       /\ \A j \in idx : Gap(p.slots[i]) <= Gap(p.slots[j])
                       /\ \A j \in idx : j < i
                                            => Gap(p.slots[j]) > Gap(p.slots[i])
            IN p.slots[m].slotId

\* a plausible slip: among equal gaps the last slot wins
FallbackSlotLastOfTies(p) ==
    IF p.slots = <<>> THEN NoSlot
    ELSE LET idx == 1..Len(p.slots)
             m == CHOOSE i \in idx :
                    /\ \A j \in idx : Gap(p.slots[i]) <= Gap(p.slots[j])
                    /\ \A j \in (i + 1)..Len(p.slots) :
                          Gap(p.slots[j]) > Gap(p.slots[i])
         IN p.slots[m].slotId

\* candidates.sort((a, b) => a.gap - b.gap)[0]?.slotId  (the sort is stable)
FallbackSlot(p) ==
    IF p.slots = <<>> THEN NoSlot
    ELSE LET idx == 1..Len(p.slots)
             m == CHOOSE i \in idx :
                    /\ \A j \in idx : Gap(p.slots[i]) <= Gap(p.slots[j])
                    /\ \A j \in 1..(i - 1) : Gap(p.slots[j]) > Gap(p.slots[i])
         IN p.slots[m].slotId

chooseSlotToFix(cur, p) ==
    LET sid == FirstDiagSlot(cur.diagnostics, cur.injectedDtsPath,
                             cur.slotLineMap)
    IN IF sid # NoSlot THEN sid ELSE FallbackSlot(p)

(***************************************************************************)
(* The consumer project's files and normalizeTsconfig.                      *)
(***************************************************************************)
TsconfigPlain == [moduleResolution |-> "Node", module |-> "CommonJS"]
TsconfigNodeNext == [moduleResolution |-> "NodeNext", module |-> "CommonJS"]
TsconfigSet == {TsconfigPlain, TsconfigNodeNext}

\* a tsconfig.json whose text JSON.parse rejects
Unparsable == [unparsable |-> TRUE]

\* fs.readFile or JSON.parse of normalizeTsconfig throws on it
Unreadable(cfg) == cfg \in {Absent, Unparsable}

NeedsNormalize(cfg) ==
    cfg.moduleResolution = "NodeNext" /\ cfg.module # "NodeNext"

Normalize(cfg) ==
    IF NeedsNormalize(cfg) THEN [cfg EXCEPT !.module = "NodeNext"] ELSE cfg

\* the awaited file-system or process call of evalWithAssignment that throws
Faults == {"none", "readTsconfig", "copyBackup", "writeNormalized",
           "writeInjected", "spawn", "restore"}

FaultPossible(fault, d) ==
    IF Unreadable(d.tsconfig) THEN fault = "readTsconfig"
    ELSE fault = "writeNormalized" => NeedsNormalize(d.tsconfig)

\* the faults under which runCommand is reached and resolves
ReachesTsc(fault) == fault \in {"none", "restore"}

\* normalizeTsconfig(tsconfigPath), up to the exception if one is thrown
normalizeTsconfig(d, fault) ==
    IF fault \in {"readTsconfig", "copyBackup"} THEN d
    ELSE IF fault = "writeNormalized" THEN [d EXCEPT !.bak = d.tsconfig]
    ELSE [d EXCEPT !.bak = d.tsconfig, !.tsconfig = Normalize(d.tsconfig)]

\* normalization.restore(), then fs.rm(injectedTsconfig) when it was written
Cleanup(d, fault) ==
    IF fault = "restore" THEN d
    ELSE [tsconfig |-> d.bak, bak |-> Absent, injected |-> FALSE]

(***************************************************************************)
(* evalWithAssignment                                                       *)
(***************************************************************************)
\* (stderr || "") + (stdout || "")
OutputOfEval(outcome) == outcome.stderr \o outcome.output

\* the result object built in the try block
FreshResult(p, o, assignment, suffix, outcome) ==
    LET combined == OutputOfEval(outcome)
        errorCode == firstErrorCode(combined)
        status == classify(outcome.exitCode, errorCode, outcome.timedOut)
        errorCount == countErrors(combined)
        trivialCount == countTrivialSelected(p, assignment)
    IN [status |-> status,
        errorCode |-> IF status = "success" THEN NoCode ELSE errorCode,
        injectedDtsPath |-> DtsPath,
        assignment |-> assignment,
        score |-> computeScore(status, errorCount, trivialCount,
                               o.trivialPenalty),
        errorCount |-> errorCount,
        trivialCount |-> trivialCount,
        slotLineMap |-> buildSlotLineMap(p),
        diagnostics |-> parseDiagnostics(combined, ProjectPath),
        phase |-> suffix]

\* a plausible slip: the result is never stored
CacheSetSkipped(c, key, result) == c

\* cache.set(key, result)
CacheSet(c, key, result) == (key :> result) @@ c

evalWithAssignment(name, p, o, assignment, suffix, c, d, outcome, fault) ==
    LET key == CacheKey(name, assignment, o)
    IN IF key \in DOMAIN c
       THEN [key |-> key, hit |-> TRUE, threw |-> FALSE, ranTsc |-> FALSE,
             outcome |-> outcome,
             result |-> [fromCache |-> TRUE] @@ c[key],
             cache |-> c, disk |-> d]
       ELSE LET d1 == normalizeTsconfig(d, fault)
            IN IF fault \in {"readTsconfig", "copyBackup", "writeNormalized"}
               THEN [key |-> key, hit |-> FALSE, threw |-> TRUE,
                     ranTsc |-> FALSE, outcome |-> outcome,
                     result |-> NoResult,
                     cache |-> c, disk |-> d1]
               ELSE LET d2 == IF fault = "writeInjected" THEN d1
                              ELSE [d1 EXCEPT !.injected = TRUE]
                        r == FreshResult(p, o, assignment, suffix, outcome)
                    IN [key |-> key, hit |-> FALSE,
                        threw |-> (fault # "none"),
                        ranTsc |-> ReachesTsc(fault),
                        outcome |-> outcome,
                        result |-> IF fault = "none" THEN r ELSE NoResult,
                        cache |-> IF ReachesTsc(fault)
                                  THEN CacheSet(c, key, r) ELSE c,
                        disk |-> Cleanup(d2, fault)]

(***************************************************************************)
(* What the checker can answer for an assignment.  Under "arbitrary" any    *)
(* outcome on any invocation; under "fixture" the consumer of               *)
(* fixtures/repair-project, whose use of the library type-checks exactly    *)
(* against the declarations it is structurally compatible with.             *)
(***************************************************************************)
FixtureAccepts(t) == t \in {"{ foo: number }", "any", " any "}

SelectedTypes(p, assignment) ==
    {p.slots[i].candidates[IndexOf(assignment, p.slots[i].slotId) + 1].type :
        i \in 1..Len(p.slots)}

CheckerOutcomes(mode, p, assignment) ==
    IF mode = "fixture"
    THEN IF \A t \in SelectedTypes(p, assignment) : FixtureAccepts(t)
         THEN {TscPass} ELSE TscTypeErrors
    ELSE TscOutcomes

(***************************************************************************)
(* The projects of a run and the data runProjectLegacy and                  *)
(* runProjectWithManifest report for one of them.                           *)
(***************************************************************************)
\* a project: the basename of its path, whether its directory and its
\* tsconfig.json exist and parse (state), and whether
\* predictions/<name>.json exists
ProjectStates == {"ok", "noDir", "noTsconfig", "badJson"}
\* a project path <dir>/<name>: its basename is the project name
ProjectOf(dir, name, state, hasPreds) ==
    [dir |-> dir, name |-> name, state |-> state, hasPreds |-> hasPreds]

MainProject == ProjectOf("projects", ProjectName, "ok", TRUE)
NoProject == ProjectOf("", "", "ok", FALSE)

\* the files of a project before the run touches it
ProjectDisk(pr) ==
    [tsconfig |-> IF pr.state = "ok" THEN TsconfigPlain
                  ELSE IF pr.state = "badJson" THEN Unparsable
                  ELSE Absent,
     bak |-> Absent, injected |-> FALSE]

TSCONFIG_MISSING == << "TSCONFIG_MISSING" >>
TSCONFIG_PARSE == << "TSCONFIG_PARSE" >>
PROJECT_MISSING == << "PROJECT_MISSING" >>

\* stderr || stdout
OutputOfLegacy(outcome) ==
    IF outcome.stderr # <<>> THEN outcome.stderr ELSE outcome.output

\* stderr || stdout, in runProjectWithManifest
OutputOfManifest(outcome) ==
    IF outcome.stderr # <<>> THEN outcome.stderr ELSE outcome.output

\* status and errorCode as a result object reports them
Reported(exitCode, output, timedOut) ==
    LET errorCode == firstErrorCode(output)
        status == classify(exitCode, errorCode, timedOut)
    IN [status |-> status,
        errorCode |-> IF status = "success" THEN NoCode ELSE errorCode]

\* the record of one checker run: who ran it, what runCommand resolved
\* with, the code found and the status given, by run.js and by run.ts
RunOf(fn, outcome, output) ==
    [fn |-> fn, outcome |-> outcome, code |-> firstErrorCode(output),
     status |-> classify(outcome.exitCode, firstErrorCode(output),
                         outcome.timedOut),
     statusTs |-> classifyTs(outcome.exitCode, firstErrorCode(output),
                             outcome.timedOut),
     errorCode |-> Reported(outcome.exitCode, output,
                            outcome.timedOut).errorCode]

\* the early returns of runProjectLegacy / runProjectWithManifest
ConfigError(pr, code, condition) ==
    [project |-> pr.name, status |-> "config_error", exitCode |-> NullExit,
     errorCode |-> code, normalized |-> FALSE, condition |-> condition]

\* runProjectLegacy(projectPath, opts, logsDir), given the checker's answer
runProjectLegacy(pr, outcome) ==
    IF pr.state = "noDir" THEN ConfigError(pr, TSCONFIG_MISSING, "legacy")
    ELSE IF pr.state = "noTsconfig"
    THEN ConfigError(pr, TSCONFIG_MISSING, "legacy")
    ELSE IF Unreadable(ProjectDisk(pr).tsconfig)
    THEN ConfigError(pr, TSCONFIG_PARSE, "legacy")
    ELSE LET rep == Reported(outcome.exitCode, OutputOfLegacy(outcome),
                             outcome.timedOut)
         IN [project |-> pr.name, status |-> rep.status,
             exitCode |-> outcome.exitCode, errorCode |-> rep.errorCode,
             normalized |-> NeedsNormalize(ProjectDisk(pr).tsconfig),
             condition |-> "legacy"]

\* runProjectWithManifest(project, workDir, ...), given the checker's answer
runProjectWithManifest(pr, outcome) ==
    IF pr.state = "noDir" THEN ConfigError(pr, PROJECT_MISSING, "manifest")
    ELSE IF pr.state = "noTsconfig"
    THEN ConfigError(pr, TSCONFIG_MISSING, "manifest")
    ELSE IF Unreadable(ProjectDisk(pr).tsconfig)
    THEN ConfigError(pr, TSCONFIG_PARSE, "manifest")
    ELSE LET rep == Reported(outcome.exitCode, OutputOfManifest(outcome),
                             outcome.timedOut)
         IN [project |-> pr.name, status |-> rep.status,
             exitCode |-> outcome.exitCode, errorCode |-> rep.errorCode,
             normalized |-> NeedsNormalize(ProjectDisk(pr).tsconfig),
             condition |-> "manifest"]

\* whether the function reaches runCommand for the project
RunsChecker(pr) == pr.state = "ok"

(***************************************************************************)
(* The scenario evaluation's files: node_modules/@types of the consumer.    *)
(***************************************************************************)
\* types: node_modules/@types exists; siblings: it holds other packages;
\* typesDir: @types/<lib> exists; extra: it holds other files than
\* index.d.ts; target: content of @types/<lib>/index.d.ts; backup: content
\* of index.d.ts.bak_phase5
NmOf(types, siblings, typesDir, extra, target, backup) ==
    [types |-> types, siblings |-> siblings, typesDir |-> typesDir,
     extra |-> extra, target |-> target, backup |-> backup]

NmNone == NmOf(FALSE, FALSE, FALSE, FALSE, "absent", "absent")

\* a consumer that ships its own @types/<libraryName>/index.d.ts
NmOriginal == NmOf(TRUE, FALSE, TRUE, FALSE, "original", "absent")

\* the states a consumer can be in before an evaluation
NmStates ==
    {n \in [types : BOOLEAN, siblings : BOOLEAN, typesDir : BOOLEAN,
            extra : BOOLEAN, target : {"absent", "original"},
            backup : {"absent"}] :
        /\ n.siblings => n.types
        /\ n.typesDir => n.types
        /\ n.extra => n.typesDir
        /\ n.target # "absent" => n.typesDir}

NoScenarioCall == [inject |-> FALSE, called |-> FALSE]

\* aggregate.json before runExperiment has written it
NoAggregate == [written |-> FALSE, conditions |-> <<>>]

ExperimentIdle ==
    /\ experiment = [matrix |-> <<>>, resume |-> FALSE]
    /\ outFiles = <<>>
    /\ outFilesBefore = <<>>
    /\ condIdx = 0
    /\ condLog = <<>>
    /\ aggregate = NoAggregate

ScenarioIdle ==
    /\ nm = NmNone
    /\ scenario = [predictedExists |-> FALSE, matched |-> FALSE]
    /\ rows = <<>>
    /\ runNo = 0
    /\ firstRun = <<>>
    /\ lastScenario = NoScenarioCall
    /\ ExperimentIdle

\* the awaited call of evalScenarioOnce that throws
ScenarioFaults == {"none", "writeLog", "mkdirTypes", "copyOriginal",
                   "copyPredicted", "readTsconfig", "copyBackup",
                   "writeNormalized", "restore", "restoreOriginal",
                   "rmBackup", "rmTarget"}

\* injectDtsIntoNodeModules(consumerPath, libraryName, predictedDtsPath), up
\* to the exception if one is thrown
injectDtsIntoNodeModules(n, predictedExists, fault) ==
    IF fault = "mkdirTypes"
    THEN [threw |-> TRUE, nm |-> n, hadOriginal |-> FALSE]
    ELSE LET n1 == [n EXCEPT !.types = TRUE, !.typesDir = TRUE]
             hadOriginal == n1.target # "absent"
         IN IF hadOriginal /\ fault = "copyOriginal"
            THEN [threw |-> TRUE, nm |-> n1, hadOriginal |-> hadOriginal]
            ELSE LET n2 == IF hadOriginal
                           THEN [n1 EXCEPT !.backup = n1.target] ELSE n1
                 IN IF fault = "copyPredicted" \/ ~predictedExists
                    THEN [threw |-> TRUE, nm |-> n2,
                          hadOriginal |-> hadOriginal]
                    ELSE [threw |-> FALSE,
                          nm |-> [n2 EXCEPT !.target = "predicted"],
                          hadOriginal |-> hadOriginal]

\* tryRemoveIfEmpty(typesDir), then tryRemoveIfEmpty(node_modules/@types)
RemoveEmptyDirs(n) ==
    LET dirGone == ~n.typesDir
                   \/ (~n.extra /\ n.target = "absent" /\ n.backup = "absent")
        typesGone == ~n.types \/ (dirGone /\ ~n.siblings)
    IN [n EXCEPT !.typesDir = ~dirGone, !.types = ~typesGone]

\* a plausible slip: the backup is not removed after the restore
RestoreInjectionKeepsBackup(n, hadOriginal, fault) ==
    IF hadOriginal
    THEN [threw |-> FALSE, nm |-> [n EXCEPT !.target = n.backup]]
    ELSE [threw |-> FALSE,
          nm |-> RemoveEmptyDirs([n EXCEPT !.target = "absent"])]

\* the restore closure returned by injectDtsIntoNodeModules
RestoreInjection(n, hadOriginal, fault) ==
    IF hadOriginal
    THEN IF fault = "restoreOriginal" THEN [threw |-> TRUE, nm |-> n]
         ELSE IF fault = "rmBackup"
         THEN [threw |-> TRUE, nm |-> [n EXCEPT !.target = n.backup]]
         ELSE [threw |-> FALSE,
               nm |-> [n EXCEPT !.target = n.backup, !.backup = "absent"]]
    ELSE IF fault = "rmTarget" THEN [threw |-> TRUE, nm |-> n]
         ELSE [threw |-> FALSE,
               nm |-> RemoveEmptyDirs([n EXCEPT !.target = "absent"])]

\* what the checker answers in the consumer, given the declarations it
\* finds for the library: none (implicit any import, TS7016), the ones
\* shipped in node_modules (outdated) or the predicted ones
ScenarioChecker(target) ==
    IF target = "absent"
    THEN Outcome(2, FALSE, << DiagLine(RelConsumerFile, 1, TS7016) >>)
    ELSE IF target = "predicted" THEN TscPass
    ELSE TscErrConsumer

\* which faults one call can meet
ScenarioFaultPossible(fault, n, d, inject) ==
    /\ fault \in {"mkdirTypes", "copyPredicted"} => inject
    /\ fault \in {"copyOriginal", "restoreOriginal", "rmBackup"}
          => inject /\ n.target # "absent"
    /\ fault = "rmTarget" => inject /\ n.target = "absent"
    /\ Unreadable(d.tsconfig) => fault \in {"writeLog", "mkdirTypes",
                                            "copyOriginal", "copyPredicted",
                                            "readTsconfig"}
    /\ (fault = "writeNormalized" /\ ~Unreadable(d.tsconfig))
          => NeedsNormalize(d.tsconfig)
    /\ fault = "writeNormalized" => ~Unreadable(d.tsconfig)

\* evalScenarioOnce(args): the row returned, or the exception, and the files
\* it leaves
evalScenarioOnce(n, d, sc, scMode, inject, fault) ==
    IF fault = "writeLog"
    THEN [threw |-> TRUE, row |-> NoResult, nm |-> n, disk |-> d,
          saw |-> "none"]
    ELSE LET inj == IF inject
                    THEN injectDtsIntoNodeModules(n, sc.predictedExists, fault)
                    ELSE [threw |-> FALSE, nm |-> n, hadOriginal |-> FALSE]
             \* await restoreInjection(), the no-op unless inject
             undo(f) == IF inject
                        THEN RestoreInjection(inj.nm, inj.hadOriginal, f)
                        ELSE [threw |-> FALSE, nm |-> inj.nm]
         IN IF inj.threw
            THEN [threw |-> TRUE, row |-> NoResult, nm |-> inj.nm, disk |-> d,
                  saw |-> "none"]
            ELSE IF fault \in {"readTsconfig", "copyBackup", "writeNormalized"}
            THEN [threw |-> TRUE, row |-> NoResult, nm |-> undo("none").nm,
                  disk |-> normalizeTsconfig(d, fault), saw |-> "none"]
            ELSE LET d1 == normalizeTsconfig(d, fault)
                     outcome == ScenarioChecker(inj.nm.target)
                     rep == Reported(outcome.exitCode, OutputOfEval(outcome),
                                     outcome.timedOut)
                     row == [mode |-> scMode, status |-> rep.status,
                             errorCode |-> rep.errorCode]
                 IN IF fault = "restore"
                    THEN [threw |-> TRUE, row |-> NoResult, nm |-> inj.nm,
                          disk |-> d1, saw |-> inj.nm.target]
                    ELSE [threw |-> undo(fault).threw,
                          row |-> IF undo(fault).threw THEN NoResult ELSE row,
                          nm |-> undo(fault).nm,
                          disk |-> [d1 EXCEPT !.tsconfig = d1.bak,
                                              !.bak = Absent],
                          saw |-> inj.nm.target]

(***************************************************************************)
(* State machine: legacyEval in repair mode for one project.                *)
(***************************************************************************)
TopKs == 1..MaxTopK
MaxIterChoices == 0..MaxItersBound
PenaltyWeights == {-1, 0, 1, 5}

Init ==
    /\ preds \in PredsSet
    /\ opts \in [topk : TopKs, maxIters : MaxIterChoices,
                  trivialPenalty : PenaltyWeights]
    /\ tsc \in (IF preds \in {PredsFixture, PredsTrivialFirst}
                THEN {"arbitrary", "fixture"} ELSE {"arbitrary"})
    /\ disk \in [tsconfig : TsconfigSet, bak : {Absent}, injected : {FALSE}]
    /\ cache = <<>>
    /\ pc = "start"
    /\ baseline = NoResult
    /\ current = NoResult
    /\ best = NoResult
    /\ improved = FALSE
    /\ exhausted = {}
    /\ iter = 0
    /\ slotId = NoSlot
    /\ k = 0
    /\ candIdx = 0
    /\ final = NoResult
    /\ tscRuns = <<>>
    /\ evalCalls = <<>>
    /\ firstEval = <<>>
    /\ lastEval = NoResult
    /\ iterEvals = <<>>
    /\ lowerSeen = FALSE
    /\ runMode = "repair"
    /\ projects = <<>>
    /\ project = MainProject
    /\ results = <<>>
    /\ baselineOut = <<>>
    /\ repairedOut = <<>>
    /\ lastRun = NoRun
    /\ ScenarioIdle
    /\ CommandIdle

Count(f, key) == IF key \in DOMAIN f THEN f[key] ELSE 0

\* bookkeeping of one evalWithAssignment call e for the requested assignment
Record(e, assignment) ==
    /\ tscRuns' = IF e.ranTsc
                  THEN (e.key :> (Count(tscRuns, e.key) + 1)) @@ tscRuns
                  ELSE tscRuns
    /\ evalCalls' = (e.key :> (Count(evalCalls, e.key) + 1)) @@ evalCalls
    /\ firstEval' = IF e.key \in DOMAIN firstEval \/ e.threw THEN firstEval
                    ELSE (e.key :> [status |-> e.result.status,
                                    score |-> e.result.score,
                                    dir |-> project.dir]) @@ firstEval
    /\ lastEval' = [status |-> "called", key |-> e.key,
                    assignment |-> assignment, hit |-> e.hit,
                    threw |-> e.threw, result |-> e.result,
                    nth |-> Count(evalCalls, e.key) + 1,
                    diskBefore |-> disk, dir |-> project.dir]
    /\ lastRun' = IF e.ranTsc
                  THEN RunOf("evalWithAssignment", e.outcome,
                             OutputOfEval(e.outcome))
                  ELSE lastRun

\* the outcomes to draw for a call: the checker's answer matters only when
\* the call reaches runCommand
Draws(fault, assignment) ==
    IF ReachesTsc(fault) THEN CheckerOutcomes(tsc, preds, assignment)
    ELSE {TscPass}

\* legacyEval: const baseline = await evalWithAssignment({... initialAssignment})
EvalBaseline ==
    /\ pc = "start"
    /\ \E fault \in Faults :
         /\ FaultPossible(fault, disk)
         /\ LET a0 == initialAssignment(preds, opts.topk)
            IN \E outcome \in Draws(fault, a0) :
                 LET e == evalWithAssignment(project.name, preds, opts, a0,
                                             "baseline",
                                             cache, disk, outcome, fault)
                 IN /\ Record(e, a0)
                    /\ cache' = e.cache
                    /\ disk' = e.disk
                    /\ baseline' = e.result
                    /\ baselineOut' = IF e.threw THEN baselineOut
                                      ELSE Append(baselineOut, e.result)
                    /\ pc' = IF e.threw THEN "crashed" ELSE "repair"
    /\ UNCHANGED <<preds, opts, tsc, current, best, improved, exhausted,
                   iter, slotId, k, candIdx, final, iterEvals, lowerSeen,
                   runVars,
                   benchVars>>

\* a plausible slip: every returned result is flagged as repaired
ReturnedAsRepaired(r, repaired) ==
    [repaired |-> TRUE] @@ [r EXCEPT !.phase = "repaired"]

\* { ...r, phase: "repaired", repaired }
Returned(r, repaired) ==
    [repaired |-> repaired] @@ [r EXCEPT !.phase = "repaired"]

\* { ...r, phase: "repaired", repaired: true, iters }
ReturnedIters(r, iters) ==
    [repaired |-> TRUE, iters |-> iters] @@ [r EXCEPT !.phase = "repaired"]

\* a plausible slip: only a passing baseline returns early
EntersLoopUnlessSuccess(b) == b.status # "success"

\* the two early returns of repairProject let only a type_error through
EntersLoop(b) == b.status # "success" /\ b.status = "type_error"

\* repairProject, up to the loop
RepairEntry ==
    /\ pc = "repair"
    /\ IF baseline.status = "success"
       THEN /\ final' = Returned(baseline, TRUE)
            /\ pc' = "done"
            /\ UNCHANGED <<current, exhausted, iter>>
       ELSE IF ~EntersLoop(baseline)
       THEN /\ final' = Returned(baseline, FALSE)
            /\ pc' = "done"
            /\ UNCHANGED <<current, exhausted, iter>>
       ELSE /\ current' = baseline
            /\ exhausted' = {}
            /\ iter' = 0
            /\ pc' = "loop"
            /\ UNCHANGED final
    /\ UNCHANGED <<preds, opts, tsc, disk, cache, baseline, best, improved,
                   slotId, k, candIdx, tscRuns, evalCalls, firstEval,
                   lastEval, iterEvals, lowerSeen, runVars, baselineOut,
                   lastRun,
                   benchVars>>

Min(a, b) == IF a <= b THEN a ELSE b

\* a plausible slip: the window is topk whatever the number of candidates
CandidateWindowOfTopK(p, o, sid) == o.topk

\* Math.min(opts.topk, slot?.candidates?.length ?? 0)
CandidateWindow(p, o, sid) ==
    LET i == FindSlot(p, sid)
    IN Min(o.topk, IF i = 0 THEN 0 ELSE Len(p.slots[i].candidates))

\* a plausible slip: the loop is not bounded by maxIters
IterationsLeftAlways(i, o) == TRUE

\* for (let iter = 0; iter < opts.maxIters; iter++)
IterationsLeft(i, o) == i < o.maxIters

\* head of the for loop: slot selection, exhausted check, k
LoopTop ==
    /\ pc = "loop"
    /\ IF ~IterationsLeft(iter, opts)
       THEN /\ final' = Returned(current, current.status = "success")
            /\ pc' = "done"
            /\ UNCHANGED <<exhausted, iter, slotId, k, candIdx, best,
                           improved>>
       ELSE LET sid == chooseSlotToFix(current, preds)
                kk == CandidateWindow(preds, opts, sid)
            IN IF sid = NoSlot \/ sid \in exhausted
               THEN /\ final' = Returned(current, current.status = "success")
                    /\ pc' = "done"
                    /\ slotId' = sid
                    /\ UNCHANGED <<exhausted, iter, k, candIdx, best,
                                   improved>>
               ELSE IF kk <= 1
               THEN /\ exhausted' = exhausted \cup {sid}
                    /\ iter' = iter + 1
                    /\ pc' = "loop"
                    /\ slotId' = sid
                    /\ UNCHANGED <<final, k, candIdx, best, improved>>
               ELSE /\ slotId' = sid
                    /\ k' = kk
                    /\ best' = current
                    /\ improved' = FALSE
                    /\ candIdx' = 1
                    /\ pc' = "cand"
                    /\ UNCHANGED <<final, exhausted, iter>>
    /\ iterEvals' = <<>>
    /\ UNCHANGED <<preds, opts, tsc, disk, cache, baseline, current,
                   tscRuns, evalCalls, firstEval, lastEval, lowerSeen,
                   runVars, baselineOut, lastRun,
                   benchVars>>

\* a plausible slip: any different score is accepted
ImprovesOnDifference(r, b) == r.score # b.score

\* a plausible slip: an equal score is accepted too
ImprovesOrEqual(r, b) == r.score <= b.score

\* a plausible slip: the comparison is reversed
ImprovesReversed(r, b) == r.score > b.score

\* if (r.score < best.score)
Improves(r, b) == r.score < b.score

\* a plausible slip: the inner loop never stops early
StopAlternativesNever(b) == FALSE

\* if (best.status === "success") break
StopAlternatives(b) == b.status = "success"

\* one pass of the inner loop: evaluate candIdx, accept, break or advance
EvalAlternative ==
    /\ pc = "cand"
    /\ \E fault \in Faults :
         /\ FaultPossible(fault, disk)
         /\ LET nextAssign == (slotId :> candIdx) @@ current.assignment
            IN \E outcome \in Draws(fault, nextAssign) :
                 LET e == evalWithAssignment(project.name, preds, opts,
                                             nextAssign, "repaired", cache,
                                             disk, outcome, fault)
                     r == e.result
                 IN /\ Record(e, nextAssign)
                    /\ cache' = e.cache
                    /\ disk' = e.disk
                    /\ IF e.threw
                       THEN /\ pc' = "crashed"
                            /\ UNCHANGED <<best, improved, candIdx,
                                           iterEvals, lowerSeen>>
                       ELSE LET accept == Improves(r, best)
                                newBest == IF accept THEN r ELSE best
                            IN /\ best' = newBest
                               /\ improved' = (improved \/ accept)
                               /\ iterEvals' = Append(iterEvals, r.status)
                               /\ lowerSeen' = (lowerSeen
                                                 \/ r.score < baseline.score)
                               /\ IF StopAlternatives(newBest)
                                     \/ candIdx + 1 >= k
                                  THEN /\ pc' = "iterEnd"
                                       /\ UNCHANGED candIdx
                                  ELSE /\ pc' = "cand"
                                       /\ candIdx' = candIdx + 1
    /\ UNCHANGED <<preds, opts, tsc, baseline, current, exhausted, iter,
                   slotId, k, final, runVars, baselineOut,
                   benchVars>>

\* tail of the for loop body: return on success, exhaust or advance
IterEnd ==
    /\ pc = "iterEnd"
    /\ IF best.status = "success"
       THEN /\ final' = ReturnedIters(best, iter + 1)
            /\ pc' = "done"
            /\ UNCHANGED <<exhausted, current, iter>>
       ELSE /\ exhausted' = IF improved THEN exhausted
                            ELSE exhausted \cup {slotId}
            /\ current' = IF improved THEN best ELSE current
            /\ iter' = iter + 1
            /\ pc' = "loop"
            /\ UNCHANGED final
    /\ UNCHANGED <<preds, opts, tsc, disk, cache, baseline, best, improved,
                   slotId, k, candIdx, tscRuns, evalCalls, firstEval,
                   lastEval, iterEvals, lowerSeen, runVars, baselineOut,
                   lastRun,
                   benchVars>>

Next ==
    \/ EvalBaseline
    \/ RepairEntry
    \/ LoopTop
    \/ EvalAlternative
    \/ IterEnd

Spec == Init /\ [][Next]_vars

\* no step of legacyEval waits on anything but its own awaited calls, and
\* every checker invocation is assumed to return
\* termination is checked for a tsconfig.json that needs no normalisation and
\* for one penalty weight of each sign
FairInit ==
    /\ Init
    /\ disk.tsconfig = TsconfigPlain
    /\ opts.trivialPenalty \in {-1, 0, 5}

FairSpec == FairInit /\ [][Next]_vars /\ WF_vars(Next)

(***************************************************************************)
(* State machine: a whole run over several projects, in legacy mode (main   *)
(* without --repair), in repair mode (legacyEval's loop around              *)
(* evalWithAssignment and repairProject) or in manifest mode.               *)
(***************************************************************************)
MaxProjects == 2

ProjectNames == << "proj", "other", "third" >>

\* the directories the glob finds the projects in, one per position
ProjectDirs == << "a", "b", "c" >>

\* the project lists of at most MaxProjects projects: distinct paths, the
\* basename of a later one possibly that of the first; predictions/<name>.json
\* is one file per name
ProjectQueues ==
    UNION {{q \in [1..n -> [dir : {ProjectDirs[i] : i \in 1..n},
                            name : {ProjectNames[i] : i \in 1..n},
                            state : ProjectStates,
                            hasPreds : BOOLEAN]] :
               /\ \A i \in 1..n :
                     /\ q[i].dir = ProjectDirs[i]
                     /\ q[i].name \in {ProjectNames[i], ProjectNames[1]}
               /\ \A i, j \in 1..n :
                     q[i].name = q[j].name => q[i].hasPreds = q[j].hasPreds} :
           n \in 1..MaxProjects}

RunInit ==
    /\ runMode \in {"legacy", "repair", "manifest"}
    /\ projects \in ProjectQueues
    /\ (runMode # "repair" => \A i \in 1..Len(projects) : ~projects[i].hasPreds)
    /\ project = NoProject
    /\ preds = PredsFixture
    /\ opts \in [topk : {MaxTopK}, maxIters : {0, 1}, trivialPenalty : {5}]
    /\ tsc = "fixture"
    /\ disk = ProjectDisk(NoProject)
    /\ cache = <<>>
    /\ pc = "next"
    /\ baseline = NoResult
    /\ current = NoResult
    /\ best = NoResult
    /\ improved = FALSE
    /\ exhausted = {}
    /\ iter = 0
    /\ slotId = NoSlot
    /\ k = 0
    /\ candIdx = 0
    /\ final = NoResult
    /\ tscRuns = <<>>
    /\ evalCalls = <<>>
    /\ firstEval = <<>>
    /\ lastEval = NoResult
    /\ iterEvals = <<>>
    /\ lowerSeen = FALSE
    /\ results = <<>>
    /\ baselineOut = <<>>
    /\ repairedOut = <<>>
    /\ lastRun = NoRun
    /\ ScenarioIdle
    /\ CommandIdle

searchVars == <<preds, opts, tsc, cache, baseline, current, best, improved,
                exhausted, iter, slotId, k, candIdx, final, tscRuns,
                evalCalls, firstEval, lastEval, iterEvals, lowerSeen>>

\* the outcomes to draw for a project: the checker's answer matters only
\* when runCommand is reached
RunDraws(pr) == IF RunsChecker(pr) THEN RunOutcomes ELSE {TscPass}

\* main without --repair: results.push(await runProjectLegacy(...))
LegacyProject ==
    /\ pc = "next"
    /\ runMode = "legacy"
    /\ projects # <<>>
    /\ LET pr == Head(projects)
       IN \E outcome \in RunDraws(pr) :
            /\ results' = Append(results, runProjectLegacy(pr, outcome))
            /\ lastRun' = IF RunsChecker(pr)
                          THEN RunOf("runProjectLegacy", outcome,
                                     OutputOfLegacy(outcome))
                          ELSE lastRun
            /\ project' = pr
            /\ projects' = Tail(projects)
    /\ UNCHANGED <<searchVars, disk, pc, runMode, baselineOut, repairedOut,
                   benchVars>>

\* manifest mode: results.push(await runProjectWithManifest(...)); under
\* BL1 tsconfig.injected.json is written before and removed after the run
ManifestProject ==
    /\ pc = "next"
    /\ runMode = "manifest"
    /\ projects # <<>>
    /\ LET pr == Head(projects)
       IN \E outcome \in RunDraws(pr) :
            /\ results' = Append(results, runProjectWithManifest(pr, outcome))
            /\ lastRun' = IF RunsChecker(pr)
                          THEN RunOf("runProjectWithManifest", outcome,
                                     OutputOfManifest(outcome))
                          ELSE lastRun
            /\ project' = pr
            /\ projects' = Tail(projects)
    /\ UNCHANGED <<searchVars, disk, pc, runMode, baselineOut, repairedOut,
                   benchVars>>

\* legacyEval, repair mode, !hasPreds: the legacy result is pushed as the
\* baseline and as the repaired record, then continue
RepairWithoutPreds ==
    /\ pc = "next"
    /\ runMode = "repair"
    /\ projects # <<>>
    /\ ~Head(projects).hasPreds
    /\ LET pr == Head(projects)
       IN \E outcome \in RunDraws(pr) :
            LET r == runProjectLegacy(pr, outcome)
            IN /\ baselineOut' = Append(baselineOut,
                                        [phase |-> "baseline"] @@ r)
               /\ repairedOut' = Append(repairedOut,
                                        [phase |-> "repaired"] @@ r)
               /\ lastRun' = IF RunsChecker(pr)
                             THEN RunOf("runProjectLegacy", outcome,
                                        OutputOfLegacy(outcome))
                             ELSE lastRun
               /\ project' = pr
               /\ projects' = Tail(projects)
    /\ UNCHANGED <<searchVars, disk, pc, runMode, results,
                   benchVars>>

\* legacyEval, repair mode, hasPreds: the predictions are read and the
\* locals of the loop body and of repairProject start afresh
BeginProject ==
    /\ pc = "next"
    /\ runMode = "repair"
    /\ projects # <<>>
    /\ Head(projects).hasPreds
    /\ project' = Head(projects)
    /\ projects' = Tail(projects)
    /\ disk' = ProjectDisk(Head(projects))
    /\ pc' = "start"
    /\ baseline' = NoResult
    /\ current' = NoResult
    /\ best' = NoResult
    /\ improved' = FALSE
    /\ exhausted' = {}
    /\ iter' = 0
    /\ slotId' = NoSlot
    /\ k' = 0
    /\ candIdx' = 0
    /\ final' = NoResult
    /\ iterEvals' = <<>>
    /\ lowerSeen' = FALSE
    /\ UNCHANGED <<preds, opts, tsc, cache, tscRuns, evalCalls, firstEval,
                   lastEval, runMode, results, baselineOut, repairedOut,
                   lastRun,
                   benchVars>>

\* legacyEval: repairedOut.push(repaired)
FinishProject ==
    /\ pc = "done"
    /\ repairedOut' = Append(repairedOut, final)
    /\ pc' = "next"
    /\ UNCHANGED <<searchVars, disk, runMode, projects, project, results,
                   baselineOut, lastRun,
                   benchVars>>

\* after the loop: the result files are written
WriteResults ==
    /\ pc = "next"
    /\ projects = <<>>
    /\ pc' = "finished"
    /\ UNCHANGED <<searchVars, disk, runVars, baselineOut, lastRun,
                   benchVars>>

RunNext ==
    \/ LegacyProject
    \/ ManifestProject
    \/ RepairWithoutPreds
    \/ BeginProject
    \/ EvalBaseline
    \/ RepairEntry
    \/ LoopTop
    \/ EvalAlternative
    \/ IterEnd
    \/ FinishProject
    \/ WriteResults

RunSpec == RunInit /\ [][RunNext]_vars

(***************************************************************************)
(* State machine: runScenarioEval for one scenario, run twice.              *)
(***************************************************************************)
LegacyIdle ==
    /\ preds = PredsEmpty
    /\ opts = [topk |-> 1, maxIters |-> 0, trivialPenalty |-> 0]
    /\ tsc = "arbitrary"
    /\ cache = <<>>
    /\ baseline = NoResult
    /\ current = NoResult
    /\ best = NoResult
    /\ improved = FALSE
    /\ exhausted = {}
    /\ iter = 0
    /\ slotId = NoSlot
    /\ k = 0
    /\ candIdx = 0
    /\ final = NoResult
    /\ tscRuns = <<>>
    /\ evalCalls = <<>>
    /\ firstEval = <<>>
    /\ lastEval = NoResult
    /\ iterEvals = <<>>
    /\ lowerSeen = FALSE
    /\ runMode = "scenarios"
    /\ projects = <<>>
    /\ project = NoProject
    /\ results = <<>>
    /\ baselineOut = <<>>
    /\ repairedOut = <<>>
    /\ lastRun = NoRun

legacyVars == <<searchVars, runVars, baselineOut, lastRun, cmd>>

ScenarioInit ==
    /\ LegacyIdle
    /\ CommandIdle
    /\ nm \in NmStates
    /\ scenario \in [predictedExists : BOOLEAN, matched : {TRUE}]
    /\ disk \in [tsconfig : TsconfigSet \cup {Absent}, bak : {Absent},
                  injected : {FALSE}]
    /\ ExperimentIdle
    /\ rows = <<>>
    /\ runNo = 1
    /\ firstRun = <<>>
    /\ lastScenario = NoScenarioCall
    /\ pc = "baseline"

\* one evalScenarioOnce call of the loop body and what follows it
ScenarioCall(scMode, inject, after) ==
    \E fault \in ScenarioFaults :
       /\ ScenarioFaultPossible(fault, nm, disk, inject)
       /\ LET e == evalScenarioOnce(nm, disk, scenario, scMode, inject, fault)
          IN /\ nm' = e.nm
             /\ disk' = e.disk
             /\ rows' = IF e.threw THEN rows ELSE Append(rows, e.row)
             /\ pc' = IF e.threw THEN "aborted" ELSE after
             /\ lastScenario' = [inject |-> inject, called |-> TRUE,
                                 threw |-> e.threw, nmBefore |-> nm,
                                 diskBefore |-> disk]

\* const baseline = await evalScenarioOnce({ sc, mode: "baseline", inject: false })
ScenarioBaseline ==
    /\ pc = "baseline"
    /\ ScenarioCall("baseline", FALSE, "predicted")
    /\ UNCHANGED <<legacyVars, scenario, runNo, firstRun, experimentVars>>

\* const predicted = await evalScenarioOnce({ sc, mode: "predicted", inject: true })
ScenarioPredicted ==
    /\ pc = "predicted"
    /\ ScenarioCall("predicted", TRUE, "write")
    /\ UNCHANGED <<legacyVars, scenario, runNo, firstRun, experimentVars>>

\* results.eval.jsonl and summary.json are written
ScenarioWrite ==
    /\ pc = "write"
    /\ pc' = "written"
    /\ UNCHANGED <<legacyVars, scenarioVars, disk, experimentVars>>

\* the command is run again on the same scenario
ScenarioRerun ==
    /\ pc \in {"written", "aborted"}
    /\ runNo = 1
    /\ runNo' = 2
    /\ firstRun' = rows
    /\ rows' = <<>>
    /\ pc' = "baseline"
    /\ UNCHANGED <<legacyVars, nm, scenario, lastScenario, disk, experimentVars>>

ScenarioNext ==
    \/ ScenarioBaseline
    \/ ScenarioPredicted
    \/ ScenarioWrite
    \/ ScenarioRerun

ScenarioSpec == ScenarioInit /\ [][ScenarioNext]_vars

(***************************************************************************)
(* State machine: runExperiment over a matrix of conditions, one scenario.  *)
(***************************************************************************)
MaxConditions == 2

CondBL0 == [id |-> "BL0", mode |-> "BL0"]
CondBL1 == [id |-> "BL1", mode |-> "BL1"]
CondOwn == [id |-> "OWN", mode |-> "SCENARIO"]
\* a second condition that reuses the id, hence the directory, of the first
CondSameId == [id |-> "BL0", mode |-> "BL1"]
ConditionSet == {CondBL0, CondBL1, CondOwn, CondSameId}

\* matrix.conditions: the non-empty lists of at most MaxConditions conditions
Matrices == UNION {[1..n -> ConditionSet] : n \in 1..MaxConditions}

MatrixIds(m) == {m[i].id : i \in 1..Len(m)}

\* a plausible slip: the rows are counted whatever their mode
RECURSIVE CountRowsOfAnyMode(_, _, _)
CountRowsOfAnyMode(rs, md, statuses) ==
    IF rs = <<>> THEN 0
    ELSE (IF rs[1].status \in statuses THEN 1 ELSE 0)
         + CountRowsOfAnyMode(Tail(rs), md, statuses)

RECURSIVE CountRows(_, _, _)
CountRows(rs, md, statuses) ==
    IF rs = <<>> THEN 0
    ELSE (IF rs[1].mode = md /\ rs[1].status \in statuses THEN 1 ELSE 0)
         + CountRows(Tail(rs), md, statuses)

\* a rate passed / total, as a percentage, 0 when there is no row
Rate(passed, total) == IF total = 0 THEN 0 ELSE (passed * 100) \div total

\* buildScenarioSummary(results).metrics
buildScenarioSummary(rs) ==
    LET baselineTotal == CountRows(rs, "baseline", Statuses)
        predictedTotal == CountRows(rs, "predicted", Statuses)
        baselineRate == Rate(CountRows(rs, "baseline", {"success"}),
                             baselineTotal)
        predictedRate == Rate(CountRows(rs, "predicted", {"success"}),
                              predictedTotal)
    IN [baseline_success_rate |-> baselineRate,
        predicted_success_rate |-> predictedRate,
        delta |-> predictedRate - baselineRate,
        baseline_total |-> baselineTotal,
        predicted_total |-> predictedTotal]

\* <out>/<id>/summary.json and results.eval.jsonl as runScenarioEvalForCondition
\* writes them
ConditionFiles(cond, rs) ==
    [condition |-> cond, metrics |-> buildScenarioSummary(rs), rows |-> rs]

\* the files a previous run of the experiment left for a condition id
OldFiles(id) ==
    ConditionFiles([id |-> id, mode |-> "BL1"],
                   << [mode |-> "baseline", status |-> "type_error",
                       errorCode |-> TS7016, conditionId |-> id],
                      [mode |-> "predicted", status |-> "success",
                       errorCode |-> NoCode, conditionId |-> id] >>)

\* getPredictedDtsForCondition: whether the path it returns exists
PredictedDtsExists(cond, sc) ==
    IF cond.mode = "BL0" THEN sc.predictedExists
    ELSE IF cond.mode \in {"BL1", "OURS_TOP1", "OURS_USAGE_TOP1",
                           "OURS_REPAIR", "OURS_USAGE_REPAIR"} THEN TRUE
    ELSE sc.predictedExists

\* the awaited call that fails in an evaluation when the files force one
ForcedFault(d) == IF Unreadable(d.tsconfig) THEN "readTsconfig" ELSE "none"

\* runScenarioEvalForCondition({ condition, outDir, ... }) for the scenario
runScenarioEvalForCondition(cond, sc, n, d) ==
    IF ~sc.matched
    THEN [threw |-> TRUE, rows |-> <<>>, nm |-> n, disk |-> d,
          saw |-> "none"]
    ELSE LET sc2 == [sc EXCEPT !.predictedExists = PredictedDtsExists(cond, sc)]
             \* const baseline = await evalScenarioOnce({ mode: "baseline" })
             baselineRun ==
                evalScenarioOnce(n, d, sc, "baseline", FALSE, ForcedFault(d))
             \* const predicted = await evalScenarioOnce({ mode: "predicted" })
             predictedRun(b) ==
                evalScenarioOnce(b.nm, b.disk, sc2, "predicted",
                                 cond.mode # "BL0", ForcedFault(b.disk))
             rowsOf(b, p) ==
                IF b.threw
                THEN [threw |-> TRUE, rows |-> <<>>, nm |-> b.nm,
                      disk |-> b.disk, saw |-> "none"]
                ELSE IF p.threw
                THEN [threw |-> TRUE, rows |-> <<>>, nm |-> p.nm,
                      disk |-> p.disk, saw |-> "none"]
                ELSE [threw |-> FALSE,
                      rows |-> << [conditionId |-> cond.id] @@ b.row,
                                  [conditionId |-> cond.id] @@ p.row >>,
                      nm |-> p.nm, disk |-> p.disk, saw |-> p.saw]
             after(b) == rowsOf(b, predictedRun(b))
         IN after(baselineRun)

\* buildAggregate(expOutDir, conditionIds).conditions
RECURSIVE buildAggregate(_, _)
buildAggregate(files, ids) ==
    IF ids = <<>> THEN <<>>
    ELSE IF ids[1] \notin DOMAIN files THEN buildAggregate(files, Tail(ids))
    ELSE LET f == files[ids[1]]
             total == CountRows(f.rows, "predicted", Statuses)
             passed == CountRows(f.rows, "predicted", {"success"})
         IN << [conditionId |-> ids[1],
                mode |-> f.condition.mode,
                success_rate |-> f.metrics.predicted_success_rate,
                total |-> total,
                passed |-> passed,
                failed |-> total - passed] >>
            \o buildAggregate(files, Tail(ids))

\* a plausible slip: an existing summary is skipped without --resume too
ShouldSkipWithoutResume(res, exists) == exists

\* expOpts.resume && existsSync(summaryPath)
ShouldSkip(res, exists) == res /\ exists

ExperimentInit ==
    /\ LegacyIdle
    /\ CommandIdle
    /\ experiment \in [matrix : Matrices, resume : BOOLEAN]
    /\ \E have \in SUBSET MatrixIds(experiment.matrix) :
          outFiles = [id \in have |-> OldFiles(id)]
    /\ outFilesBefore = outFiles
    /\ condIdx = 1
    /\ condLog = <<>>
    /\ aggregate = NoAggregate
    /\ nm \in {NmNone, NmOriginal}
    /\ scenario \in [predictedExists : BOOLEAN, matched : BOOLEAN]
    /\ disk \in [tsconfig : {TsconfigPlain, Absent}, bak : {Absent},
                  injected : {FALSE}]
    /\ rows = <<>>
    /\ runNo = 0
    /\ firstRun = <<>>
    /\ lastScenario = NoScenarioCall
    /\ pc = "conditions"

\* for (const cond of conditions): the continue of --resume
SkipCondition ==
    /\ pc = "conditions"
    /\ condIdx <= Len(experiment.matrix)
    /\ LET cond == experiment.matrix[condIdx]
       IN /\ ShouldSkip(experiment.resume, cond.id \in DOMAIN outFiles)
          /\ condLog' = Append(condLog, [id |-> cond.id, existed |-> TRUE,
                                         ran |-> FALSE, threw |-> FALSE,
                                         saw |-> "none"])
    /\ condIdx' = condIdx + 1
    /\ UNCHANGED <<legacyVars, scenarioVars, disk, pc, experiment, outFiles,
                   outFilesBefore, aggregate>>

\* for (const cond of conditions): mkdir and runScenarioEvalForCondition
RunCondition ==
    /\ pc = "conditions"
    /\ condIdx <= Len(experiment.matrix)
    /\ \E cond \in {experiment.matrix[condIdx]} :
       \E e \in {runScenarioEvalForCondition(cond, scenario, nm, disk)} :
          /\ ~ShouldSkip(experiment.resume, cond.id \in DOMAIN outFiles)
          /\ condLog' = Append(condLog,
                               [id |-> cond.id,
                                existed |-> cond.id \in DOMAIN outFiles,
                                ran |-> TRUE, threw |-> e.threw,
                                saw |-> e.saw])
          /\ nm' = e.nm
          /\ disk' = e.disk
          /\ rows' = e.rows
          /\ outFiles' = IF e.threw THEN outFiles
                         ELSE (cond.id :> ConditionFiles(cond, e.rows))
                                 @@ outFiles
          /\ pc' = IF e.threw THEN "aborted" ELSE "conditions"
          /\ condIdx' = IF e.threw THEN condIdx ELSE condIdx + 1
    /\ UNCHANGED <<legacyVars, scenario, runNo, firstRun, lastScenario,
                   experiment, outFilesBefore, aggregate>>

\* after the loop: aggregate.json is built and written
WriteAggregate ==
    /\ pc = "conditions"
    /\ condIdx > Len(experiment.matrix)
    /\ aggregate' = [written |-> TRUE,
                     conditions |->
                        buildAggregate(outFiles,
                                       [i \in 1..Len(experiment.matrix)
                                          |-> experiment.matrix[i].id])]
    /\ pc' = "aggregated"
    /\ UNCHANGED <<legacyVars, scenarioVars, disk, experiment, outFiles,
                   outFilesBefore, condIdx, condLog>>

ExperimentNext ==
    \/ SkipCondition
    \/ RunCondition
    \/ WriteAggregate

ExperimentSpec == ExperimentInit /\ [][ExperimentNext]_vars

(***************************************************************************)
(* State machine: one runCommand invocation, its child process, its two     *)
(* timers and the events the child emits. Time advances in seconds.         *)
(***************************************************************************)
MaxTime == 4
MaxChunks == 1
MaxErrorEvents == 1

\* setTimeout(() => child.kill("SIGKILL"), 1000)
GraceSec == 1

\* timeoutSec
TimeoutChoices == {1, 2}

\* the exit codes the child can end with on its own
ExitCodes == {0, 2}

\* new Promise(...): spawn, the closure variables and the armed timer
StartedCommand(timeoutSec) ==
    [started |-> TRUE, timeoutSec |-> timeoutSec, now |-> 0,
     child |-> "running", exitCode |-> NullExit,
     stdout |-> <<>>, stderr |-> <<>>,
     resolved |-> FALSE, timedOut |-> FALSE,
     timer |-> "armed", timerDue |-> timeoutSec,
     killTimer |-> "none", killDue |-> 0,
     signals |-> <<>>, resolves |-> <<>>, appends |-> <<>>,
     closeEvents |-> 0, errorEvents |-> 0]

CommandInit ==
    /\ LegacyIdle
    /\ ScenarioIdle
    /\ disk = ProjectDisk(NoProject)
    /\ pc = "command"
    /\ \E timeoutSec \in TimeoutChoices : cmd = StartedCommand(timeoutSec)

\* everything but the invocation itself
hostVars == <<searchVars, runVars, baselineOut, lastRun, scenarioVars,
              experimentVars, disk, pc>>

\* a plausible slip: the handlers do not look at the resolved flag
AlreadyResolvedIgnored(c) == FALSE

\* if (resolved) return
AlreadyResolved(c) == c.resolved

\* a plausible slip: the timer is left armed
ClearTimeoutSkipped(c) == c.timer

\* clearTimeout(timer)
ClearTimeout(c) == IF c.timer = "armed" THEN "cleared" ELSE c.timer

\* the clock advances
Tick ==
    /\ cmd.now < MaxTime
    /\ cmd' = [cmd EXCEPT !.now = cmd.now + 1]
    /\ UNCHANGED hostVars

\* child.stdout.on("data") / child.stderr.on("data")
Data ==
    /\ cmd.child \in {"running", "exited"}
    /\ \/ /\ Len(cmd.stdout) < MaxChunks
          /\ cmd' = [cmd EXCEPT !.stdout = Append(cmd.stdout, "out")]
       \/ /\ Len(cmd.stderr) < MaxChunks
          /\ cmd' = [cmd EXCEPT !.stderr = Append(cmd.stderr, "err")]
    /\ UNCHANGED hostVars

\* the child ends: on its own, or by a signal it received (a SIGTERM may be
\* ignored, a SIGKILL not)
ChildExit ==
    /\ cmd.child = "running"
    /\ \E code \in ExitCodes \cup {NullExit} :
          /\ code = NullExit => cmd.signals # <<>>
          /\ cmd' = [cmd EXCEPT !.child = "exited", !.exitCode = code]
    /\ UNCHANGED hostVars

\* child.on("close", (code) => ...)
Close ==
    /\ cmd.child = "exited"
    /\ cmd' = IF AlreadyResolved(cmd)
              THEN [cmd EXCEPT !.child = "closed",
                               !.closeEvents = cmd.closeEvents + 1]
              ELSE [cmd EXCEPT
                      !.child = "closed",
                      !.closeEvents = cmd.closeEvents + 1,
                      !.resolved = TRUE,
                      !.timer = ClearTimeout(cmd),
                      !.appends = Append(cmd.appends,
                                         cmd.stdout \o cmd.stderr),
                      !.resolves = Append(cmd.resolves,
                                          [exitCode |-> cmd.exitCode,
                                           stdout |-> cmd.stdout,
                                           stderr |-> cmd.stderr,
                                           timedOut |-> cmd.timedOut,
                                           at |-> cmd.now,
                                           timerWas |-> cmd.timer])]
    /\ UNCHANGED hostVars

\* child.on("error", (err) => ...): the process could not be spawned or
\* could not be signalled
ErrorEvent ==
    /\ cmd.errorEvents < MaxErrorEvents
    /\ cmd.child # "closed"
    /\ cmd' = IF AlreadyResolved(cmd)
              THEN [cmd EXCEPT !.errorEvents = cmd.errorEvents + 1]
              ELSE [cmd EXCEPT
                      !.errorEvents = cmd.errorEvents + 1,
                      !.resolved = TRUE,
                      !.timer = ClearTimeout(cmd),
                      !.appends = Append(cmd.appends,
                                         cmd.stderr \o <<"msg">>),
                      !.resolves = Append(cmd.resolves,
                                          [exitCode |-> 1,
                                           stdout |-> cmd.stdout,
                                           stderr |-> cmd.stderr \o <<"msg">>,
                                           timedOut |-> cmd.timedOut,
                                           at |-> cmd.now,
                                           timerWas |-> cmd.timer])]
    /\ UNCHANGED hostVars

\* the callback of setTimeout(..., timeoutSec * 1000)
TimerFires ==
    /\ cmd.timer = "armed"
    /\ cmd.now >= cmd.timerDue
    /\ cmd' = [cmd EXCEPT
                 !.timer = "fired",
                 !.timedOut = TRUE,
                 !.signals = Append(cmd.signals,
                                    [sig |-> "SIGTERM", at |-> cmd.now]),
                 !.killTimer = "armed",
                 !.killDue = cmd.now + GraceSec]
    /\ UNCHANGED hostVars

\* the callback of setTimeout(() => child.kill("SIGKILL"), 1000)
KillTimerFires ==
    /\ cmd.killTimer = "armed"
    /\ cmd.now >= cmd.killDue
    /\ cmd' = [cmd EXCEPT
                 !.killTimer = "fired",
                 !.signals = Append(cmd.signals,
                                    [sig |-> "SIGKILL", at |-> cmd.now])]
    /\ UNCHANGED hostVars

CommandNext ==
    \/ Tick
    \/ Data
    \/ ChildExit
    \/ Close
    \/ ErrorEvent
    \/ TimerFires
    \/ KillTimerFires

CommandSpec == CommandInit /\ [][CommandNext]_vars

(***************************************************************************)
(* Properties.                                                              *)
(***************************************************************************)
IsFromCache(r) == "fromCache" \in DOMAIN r /\ r.fromCache

InLoop == pc \in {"loop", "cand", "iterEnd"}

BaselineKey == CacheKey(ProjectName, initialAssignment(preds, opts.topk), opts)

\* C1: within one run the checker is invoked at most once per cache key, and
\* a repeated evalWithAssignment call for the same assignment returns a
\* result marked fromCache with the status and score of the first call.
CacheCorrectness ==
    /\ \A key \in DOMAIN tscRuns : tscRuns[key] <= 1
    /\ (lastEval # NoResult /\ lastEval.nth >= 2) =>
          /\ ~lastEval.threw
          /\ IsFromCache(lastEval.result)
          /\ lastEval.result.status = firstEval[lastEval.key].status
          /\ lastEval.result.score = firstEval[lastEval.key].score

\* the same assignment was requested again and answered
CacheCorrectnessWitness ==
    /\ lastEval # NoResult
    /\ lastEval.nth >= 2
    /\ IsFromCache(lastEval.result)
    /\ tscRuns[lastEval.key] = 1

\* C2: 'current' is only ever replaced by an evaluation with a strictly
\* lower score, so its score never increases over the iterations.
MonotonicAcceptance ==
    [][(current # NoResult /\ current' # current)
          => current'.score < current.score]_vars

\* 'current' has moved away from the baseline
MonotonicAcceptanceWitness ==
    /\ pc = "loop"
    /\ iter >= 1
    /\ current # baseline
    /\ current.score < baseline.score

\* C3: within one iteration no alternative is evaluated after an
\* alternative whose status is success.
GreedyEarlyExit ==
    \A i \in 1..(Len(iterEvals) - 1) : iterEvals[i] # "success"

\* C4: a baseline that is not a type_error is returned as it is (status and
\* all-default assignment), repaired exactly when it is a success, and no
\* alternative is evaluated.
NonTypeErrorBaselineReturned ==
    (pc = "done" /\ baseline.status # "type_error") =>
        /\ final.status = baseline.status
        /\ final.assignment = initialAssignment(preds, opts.topk)
        /\ final.repaired = (baseline.status = "success")
        /\ (baseline.status \in {"config_error", "other_error"}
               => ~final.repaired)
        /\ DOMAIN evalCalls = {BaselineKey}
        /\ evalCalls[BaselineKey] = 1

\* a configuration error at the baseline has been returned
NonTypeErrorBaselineWitness ==
    /\ pc = "done"
    /\ baseline.status = "config_error"
    /\ SlotIds(preds) # {}
    /\ opts.maxIters >= 1
    /\ opts.topk >= 2

\* C5: when the baseline is a type_error and no evaluated alternative scores
\* below the baseline, repairProject ends, after at most maxIters
\* iterations, with repaired false and the baseline's all-default
\* assignment.
ExhaustionTermination ==
    /\ [](iter <= opts.maxIters)
    /\ []((pc = "done" /\ baseline.status = "type_error" /\ ~lowerSeen) =>
            /\ final.repaired = FALSE
            /\ final.assignment = initialAssignment(preds, opts.topk)
            /\ final.status = "type_error")
    /\ <>(pc \in {"done", "crashed"})

\* alternatives were evaluated, none scored below the baseline, and the
\* repair has ended
ExhaustionTerminationWitness ==
    /\ pc = "done"
    /\ baseline.status = "type_error"
    /\ ~lowerSeen
    /\ Cardinality(DOMAIN evalCalls) >= 2

\* C6: in the fixture project (candidates: failing, passing non-trivial,
\* any) with topk >= 3, maxIters >= 1 and a positive trivial penalty the
\* baseline is a type_error and the repair ends with success, repaired true
\* and index 1 for the slot.
FixtureScenario ==
    /\ tsc = "fixture"
    /\ preds = PredsFixture
    /\ opts.topk >= 3
    /\ opts.maxIters >= 1
    /\ opts.trivialPenalty > 0

FixtureRepair ==
    FixtureScenario =>
        /\ (baseline # NoResult => baseline.status = "type_error")
        /\ (pc = "done" =>
              /\ final.status = "success"
              /\ final.repaired
              /\ final.assignment["getX:return"] = 1)

\* the fixture's repair has ended
FixtureRepairWitness ==
    /\ FixtureScenario
    /\ pc = "done"
    /\ final.status = "success"

\* C7: an alternative with status other_error or config_error never becomes
\* 'current' and never becomes the result of repairProject.
FailedAlternativeNeverAccepted ==
    /\ (InLoop /\ current # baseline)
          => current.status \notin {"other_error", "config_error"}
    /\ (pc = "done" /\ baseline.status = "type_error")
          => final.status \notin {"other_error", "config_error"}

\* C8: the loop ends only on success, on an exhausted iteration budget, or
\* when every slot that has alternatives within topK is marked exhausted.
UntriedSlots ==
    {sid \in SlotIds(preds) :
        CandidateWindow(preds, opts, sid) > 1 /\ sid \notin exhausted}

LoopEndsOnlyWhenNothingLeft ==
    (pc = "done" /\ baseline.status = "type_error") =>
        \/ final.status = "success"
        \/ iter >= opts.maxIters
        \/ UntriedSlots = {}

\* C9: after every evalWithAssignment call that is not a cache hit, returned
\* or thrown, tsconfig.json has its content of before the call and neither
\* tsconfig.json.bak nor tsconfig.injected.json exists.
CleanupOnEveryExit ==
    (lastEval # NoResult /\ ~lastEval.hit) =>
        /\ disk.tsconfig = lastEval.diskBefore.tsconfig
        /\ disk.bak = Absent
        /\ ~disk.injected

\* C10: a cache hit returns a result computed for exactly the requested
\* assignment, and two distinct assignments over the same slots never have
\* the same key.
KeyAssignments == [SlotIds(preds) -> 0..MaxKeyIndex]

CacheKeyEncodesAssignment ==
    /\ (lastEval # NoResult /\ lastEval.hit)
          => lastEval.result.assignment = lastEval.assignment
    /\ \A key \in DOMAIN cache :
          CacheKey(ProjectName, cache[key].assignment, opts) = key
    /\ pc = "start" =>
          Cardinality({assignmentKey(a) : a \in KeyAssignments})
              = Cardinality(KeyAssignments)

\* a hit for an assignment that differs from the default one, in a project
\* with two slots
CacheKeyEncodesAssignmentWitness ==
    /\ lastEval # NoResult
    /\ lastEval.hit
    /\ Cardinality(SlotIds(preds)) >= 2
    /\ \E sid \in DOMAIN lastEval.assignment : lastEval.assignment[sid] # 0

\* the type a result's assignment selects for a slot
SelectedType(p, assignment, sid) ==
    LET cands == p.slots[FindSlot(p, sid)].candidates
        idx == assignment[sid]
    IN IF idx + 1 \in 1..Len(cands) THEN cands[idx + 1].type ELSE "any"

\* the alternatives of a slot that the inner loop can reach
AlternativeIndexes(p, o, sid) == 1..(CandidateWindow(p, o, sid) - 1)

\* C11: when a trivial and a non-trivial alternative of the selected slot
\* both pass within topK, the returned assignment selects the non-trivial
\* one, whatever their order and the current error count (stated here for
\* positive penalty weights only, the case most favourable to the claim).
BothKindsPass ==
    /\ tsc = "fixture"
    /\ opts.maxIters >= 1
    /\ opts.trivialPenalty > 0
    /\ \E sid \in SlotIds(preds) :
         \E i, j \in AlternativeIndexes(preds, opts, sid) :
            LET cands == preds.slots[FindSlot(preds, sid)].candidates
            IN /\ isTrivialType(cands[i + 1].type)
               /\ FixtureAccepts(cands[i + 1].type)
               /\ ~isTrivialType(cands[j + 1].type)
               /\ FixtureAccepts(cands[j + 1].type)

NonTrivialPreferred ==
    (BothKindsPass /\ pc = "done") =>
        \A sid \in SlotIds(preds) :
            ~isTrivialType(SelectedType(preds, final.assignment, sid))

\* C12: score is penalty on success and errorCount + penalty otherwise,
\* penalty being the weight times the number of selected trivial types; a
\* passing assignment that selects a trivial type scores strictly higher
\* than the passing assignment that differs from it only by a non-trivial
\* type in that slot.
TrivialSlots(p, assignment) ==
    {sid \in DOMAIN assignment :
        /\ FindSlot(p, sid) # 0
        /\ assignment[sid] + 1
              \in 1..Len(p.slots[FindSlot(p, sid)].candidates)
        /\ isTrivialType(SelectedType(p, assignment, sid))}

ScoreFormula ==
    \A key \in DOMAIN cache :
        LET r == cache[key]
            penalty == opts.trivialPenalty
                          * Cardinality(TrivialSlots(preds, r.assignment))
        IN /\ r.trivialCount = Cardinality(TrivialSlots(preds, r.assignment))
           /\ r.score = IF r.status = "success" THEN penalty
                        ELSE r.errorCount + penalty

\* the assignments that differ from a passing one only in that they select a
\* non-trivial candidate where it selects a trivial one
NonTrivialSiblings(p, assignment) ==
    {b \in [DOMAIN assignment -> 0..(MaxTopK - 1)] :
        \E sid \in TrivialSlots(p, assignment) :
            /\ \A other \in DOMAIN assignment \ {sid} :
                  b[other] = assignment[other]
            /\ b[sid] + 1 \in 1..Len(p.slots[FindSlot(p, sid)].candidates)
            /\ ~isTrivialType(SelectedType(p, b, sid))}

\* the score computeScore gives a passing evaluation of an assignment
PassingScore(p, o, assignment) ==
    computeScore("success", 0, countTrivialSelected(p, assignment),
                 o.trivialPenalty)

TrivialScoresStrictlyHigher ==
    /\ ScoreFormula
    /\ \A key \in DOMAIN cache :
          cache[key].status = "success" =>
             \A b \in NonTrivialSiblings(preds, cache[key].assignment) :
                 cache[key].score > PassingScore(preds, opts, b)

\* C12 as amended: the strict order holds for positive weights; with weight
\* 0 the two scores are equal and with a negative weight the trivial one is
\* lower.
TrivialScoresHigherForPositiveWeight ==
    /\ ScoreFormula
    /\ \A key \in DOMAIN cache :
          cache[key].status = "success" =>
             \A b \in NonTrivialSiblings(preds, cache[key].assignment) :
                 LET t == cache[key].score
                     n == PassingScore(preds, opts, b)
                 IN /\ opts.trivialPenalty > 0 => t > n
                    /\ opts.trivialPenalty = 0 => t = n
                    /\ opts.trivialPenalty < 0 => t < n

\* a passing evaluation that selects a trivial type has been scored under a
\* positive weight, and a non-trivial sibling exists
TrivialScoresWitness ==
    /\ opts.trivialPenalty > 0
    /\ \E key \in DOMAIN cache :
          /\ cache[key].status = "success"
          /\ cache[key].score = opts.trivialPenalty
          /\ NonTrivialSiblings(preds, cache[key].assignment) # {}

\* C16: the returned result scores no higher than the baseline and than
\* every alternative evaluated for the project, whether or not a passing
\* assignment was found.
ReturnedIsBestReached ==
    pc = "done" =>
        /\ final.score <= baseline.score
        /\ \A key \in DOMAIN cache : final.score <= cache[key].score

\* a search over several alternatives has ended without a passing one
ReturnedIsBestReachedWitness ==
    /\ pc = "done"
    /\ final.status # "success"
    /\ Cardinality(DOMAIN cache) >= 3
    /\ final.score < baseline.score

\* C17: every returned result carries the number of iterations used, which
\* is at most maxIters and, on a success found in the loop, the 1-based
\* index of the iteration that found it.
IterationsAnnotated ==
    pc = "done" =>
        /\ "iters" \in DOMAIN final
        /\ final.iters <= opts.maxIters
        /\ (baseline.status = "type_error" /\ final.status = "success")
              => final.iters = iter + 1

\* C18: chooseSlotToFix returns the slot of the first diagnostic located in
\* the injected declaration file on a mapped comment or declaration line,
\* and otherwise the earliest slot, in slot order, of minimal gap.
MatchingDiagnostics(cur) ==
    {i \in 1..Len(cur.diagnostics) :
        /\ cur.diagnostics[i].filePath = cur.injectedDtsPath
        /\ \E n \in 1..Len(cur.slotLineMap) :
              cur.diagnostics[i].line
                 \in {cur.slotLineMap[n].commentLine,
                      cur.slotLineMap[n].declLine}}

SlotGap(slot) ==
    IF Len(slot.candidates) >= 2
    THEN slot.candidates[1].score - slot.candidates[2].score
    ELSE Infinity

ExpectedSlot(cur, p) ==
    IF MatchingDiagnostics(cur) # {}
    THEN LET first == CHOOSE i \in MatchingDiagnostics(cur) :
                         \A j \in MatchingDiagnostics(cur) : i <= j
             n == CHOOSE m \in 1..Len(cur.slotLineMap) :
                     cur.diagnostics[first].line
                        \in {cur.slotLineMap[m].commentLine,
                             cur.slotLineMap[m].declLine}
         IN cur.slotLineMap[n].slotId
    ELSE IF p.slots = <<>> THEN NoSlot
    ELSE LET minimal == {i \in 1..Len(p.slots) :
                           \A j \in 1..Len(p.slots) :
                              SlotGap(p.slots[i]) <= SlotGap(p.slots[j])}
         IN p.slots[CHOOSE i \in minimal : \A j \in minimal : i <= j].slotId

ProjectIndex == CHOOSE i \in 1..Len(ProjectNames) : ProjectNames[i] = project.name

\* C13: in repair mode a project whose directory or tsconfig.json is
\* missing, or whose tsconfig.json does not parse, ends as a record with a
\* config_error baseline and the same record as the repaired one, no
\* alternative is evaluated for it and the run goes on to the remaining
\* projects, with and without a predictions file.
BrokenProjectReported ==
    (/\ runMode = "repair"
     /\ project # NoProject
     /\ project.state # "ok"
     /\ pc # "start") =>
        /\ pc # "crashed"
        /\ Len(baselineOut) = ProjectIndex
        /\ Len(repairedOut) = ProjectIndex
        /\ baselineOut[ProjectIndex].status = "config_error"
        /\ baselineOut[ProjectIndex].phase = "baseline"
        /\ repairedOut[ProjectIndex]
              = [baselineOut[ProjectIndex] EXCEPT !.phase = "repaired"]
        /\ \A key \in DOMAIN evalCalls :
              key # CacheKey(project.name,
                             initialAssignment(preds, opts.topk), opts)
                 => \E i \in 1..(ProjectIndex - 1) :
                       key \in {CacheKey(ProjectNames[i], a, opts) :
                                   a \in [SlotIds(preds) -> 0..(MaxTopK - 1)]}

\* the latest record of such a project that has no predictions file
BrokenProjectWithoutPredsReported ==
    (/\ runMode = "repair"
     /\ project # NoProject
     /\ project.state # "ok"
     /\ ~project.hasPreds) =>
        /\ pc # "crashed"
        /\ baselineOut[ProjectIndex].status = "config_error"
        /\ repairedOut[ProjectIndex]
              = [baselineOut[ProjectIndex] EXCEPT !.phase = "repaired"]

\* an error code of the reserved configuration range, TS50xx or TS180x
InConfigRange(code) ==
    /\ code # NoCode
    /\ \/ SubSeq(code, 1, 2) = <<5, 0>>
       \/ SubSeq(code, 1, 3) = <<1, 8, 0>>

\* C14: classify is total and follows the priority timed out (other_error),
\* exit code 0 (success), first code in the configuration range
\* (config_error), any code (type_error), none (other_error), the same in
\* run.js and run.ts.
ClassifyPriority ==
    lastRun # NoRun =>
        LET exitCode == lastRun.outcome.exitCode
            timedOut == lastRun.outcome.timedOut
            code == lastRun.code
        IN /\ lastRun.status \in Statuses
           /\ lastRun.statusTs = lastRun.status
           /\ timedOut => lastRun.status = "other_error"
           /\ (~timedOut /\ exitCode = 0) => lastRun.status = "success"
           /\ (~timedOut /\ exitCode # 0 /\ InConfigRange(code))
                 => lastRun.status = "config_error"
           /\ (~timedOut /\ exitCode # 0 /\ code # NoCode
                  /\ ~InConfigRange(code))
                 => lastRun.status = "type_error"
           /\ (~timedOut /\ exitCode # 0 /\ code = NoCode)
                 => lastRun.status = "other_error"

\* a run that timed out although the checker exited with 0
ClassifyPriorityWitness ==
    /\ lastRun # NoRun
    /\ lastRun.outcome.timedOut
    /\ lastRun.outcome.exitCode = 0
    /\ lastRun.status = "other_error"

\* C15: for the same checker outcome runProjectLegacy,
\* runProjectWithManifest and evalWithAssignment report the same status and
\* the same error code.
ClassificationUniform ==
    lastRun # NoRun =>
        LET o == lastRun.outcome
            legacy == Reported(o.exitCode, OutputOfLegacy(o), o.timedOut)
            manifest == Reported(o.exitCode, OutputOfManifest(o), o.timedOut)
            repair == Reported(o.exitCode, OutputOfEval(o), o.timedOut)
        IN /\ legacy = manifest
           /\ legacy = repair
           /\ lastRun.status = repair.status
           /\ lastRun.errorCode = repair.errorCode

\* C19: after an evalScenarioOnce call with injection, returned or thrown,
\* @types/<lib>/index.d.ts is as before the call (absent, with the
\* directories the call created removed, or with its original content), no
\* .bak_phase5 remains, and a second run of the scenario evaluation gives
\* the statuses of the first.
InjectionRestored ==
    /\ (lastScenario.called /\ lastScenario.inject) =>
          /\ nm.target = lastScenario.nmBefore.target
          /\ nm.backup = "absent"
          /\ ~lastScenario.nmBefore.typesDir => ~nm.typesDir
          /\ ~lastScenario.nmBefore.types => ~nm.types
    /\ runNo = 2 =>
          \A i \in 1..Min(Len(rows), Len(firstRun)) :
              rows[i].status = firstRun[i].status

\* the part that holds: a call that returns leaves no injected file and no
\* backup behind
InjectionRestoredOnReturn ==
    (lastScenario.called /\ lastScenario.inject /\ ~lastScenario.threw) =>
        /\ nm.target = lastScenario.nmBefore.target
        /\ nm.backup = "absent"

\* the summary.json of condition i exists when the loop reaches it: it was
\* there before the run, or an earlier condition with the same id wrote it
SummaryExistsAt(i) ==
    \/ experiment.matrix[i].id \in DOMAIN outFilesBefore
    \/ \E j \in 1..(i - 1) :
          /\ experiment.matrix[j].id = experiment.matrix[i].id
          /\ condLog[j].ran

\* the conditions of the matrix that have a summary, in matrix order
RECURSIVE ConditionsWithSummary(_)
ConditionsWithSummary(m) ==
    IF m = <<>> THEN <<>>
    ELSE (IF m[1].id \in DOMAIN outFiles THEN <<m[1].id>> ELSE <<>>)
         \o ConditionsWithSummary(Tail(m))

\* C20: runExperiment handles the conditions in matrix order; with --resume it
\* skips exactly those whose summary.json exists when the loop reaches them
\* and runs the others, without --resume it runs every condition; once the
\* loop is over, aggregate.json has one entry per condition that has a
\* summary, in matrix order, and it is not written before the loop is over.
ResumeSkipsExisting ==
    /\ Len(condLog) <= Len(experiment.matrix)
    /\ \A i \in 1..Len(condLog) :
          /\ condLog[i].id = experiment.matrix[i].id
          /\ condLog[i].existed = SummaryExistsAt(i)
          /\ condLog[i].ran = ~(experiment.resume /\ SummaryExistsAt(i))
    /\ (~experiment.resume) => \A i \in 1..Len(condLog) : condLog[i].ran
    /\ aggregate.written <=> (pc = "aggregated")
    /\ aggregate.written =>
          /\ Len(condLog) = Len(experiment.matrix)
          /\ Len(aggregate.conditions) = Len(experiment.matrix)
          /\ [i \in 1..Len(aggregate.conditions)
                 |-> aggregate.conditions[i].conditionId]
                = ConditionsWithSummary(experiment.matrix)
          /\ \A i \in 1..Len(aggregate.conditions) :
                aggregate.conditions[i].conditionId = experiment.matrix[i].id

\* a resumed run that skipped one condition, ran another and wrote the
\* aggregate
ResumeSkipsExistingWitness ==
    /\ pc = "aggregated"
    /\ experiment.resume
    /\ \E i, j \in 1..Len(condLog) : condLog[i].ran /\ ~condLog[j].ran

\* the rows of results.eval.jsonl of a condition that are predicted-mode rows
PredictedRowIndexes(id) ==
    {j \in 1..Len(outFiles[id].rows) : outFiles[id].rows[j].mode = "predicted"}

PassedRowIndexes(id) ==
    {j \in PredictedRowIndexes(id) : outFiles[id].rows[j].status = "success"}

\* C21: in the experiment runner the predicted run of a condition that ran
\* to its end was checked against the injected declaration exactly when the
\* condition's mode is not BL0; and every entry of aggregate.json has total =
\* the number of predicted-mode rows of its condition, passed = the number of
\* those with status success, failed = total - passed and success_rate =
\* passed / total (0 when total is 0), baseline rows not being counted.
AggregateCountsPredictedRows ==
    /\ \A i \in 1..Len(condLog) :
          (condLog[i].ran /\ ~condLog[i].threw)
             => ((condLog[i].saw = "predicted")
                    <=> (experiment.matrix[i].mode # "BL0"))
    /\ aggregate.written =>
          \A i \in 1..Len(aggregate.conditions) :
             LET c == aggregate.conditions[i]
                 total == Cardinality(PredictedRowIndexes(c.conditionId))
                 passed == Cardinality(PassedRowIndexes(c.conditionId))
             IN /\ c.total = total
                /\ c.passed = passed
                /\ c.failed = total - passed
                /\ c.success_rate
                      = (IF total = 0 THEN 0 ELSE (passed * 100) \div total)

\* an aggregate with a BL0 entry whose predicted run failed without injection
\* and an injected entry whose predicted run passed, each with a baseline row
\* that failed
AggregateCountsWitness ==
    /\ aggregate.written
    /\ \E i, j \in 1..Len(aggregate.conditions) :
          /\ condLog[i].ran /\ condLog[j].ran
          /\ experiment.matrix[i].mode = "BL0"
          /\ aggregate.conditions[i].total = 1
          /\ aggregate.conditions[i].passed = 0
          /\ experiment.matrix[j].mode # "BL0"
          /\ aggregate.conditions[j].passed = 1
          /\ aggregate.conditions[j].success_rate = 100

\* C22: once an iteration of repairProject has ended without improvement
\* (its slot is in the exhausted set, also when the slot had at most one
\* candidate within topK), 'current' and the exhausted set no longer change,
\* no further assignment is evaluated and no checker is run, and the next
\* pass through the loop head selects the exhausted slot again (when
\* iterations are left) and leaves the loop, whatever other slots exist.
StopsAfterFirstNonImprovingIteration ==
    [][exhausted # {} =>
          /\ current' = current
          /\ exhausted' = exhausted
          /\ evalCalls' = evalCalls
          /\ tscRuns' = tscRuns
          /\ pc = "loop" =>
                /\ pc' = "done"
                /\ iter < opts.maxIters =>
                      /\ chooseSlotToFix(current, preds) \in exhausted
                      /\ slotId' = chooseSlotToFix(current, preds)]_vars

\* the loop was left with iterations to spare and with a slot never tried,
\* after one slot had been exhausted
StopsAfterFirstNonImprovingWitness ==
    /\ pc = "done"
    /\ exhausted # {}
    /\ iter < opts.maxIters
    /\ SlotIds(preds) \ exhausted # {}
    /\ final.status = "type_error"

\* no evaluation made so far reported a diagnostic on a mapped line of the
\* injected declaration (every evaluation that returned is in the cache)
NoMappedDiagnostic ==
    \A key \in DOMAIN cache : MatchingDiagnostics(cache[key]) = {}

\* the slots with the smallest confidence gap
MinGapSlots(p) ==
    {p.slots[i].slotId : i \in
        {i \in 1..Len(p.slots) :
            \A j \in 1..Len(p.slots) :
               SlotGap(p.slots[i]) <= SlotGap(p.slots[j])}}

\* the slots on which an assignment differs from the all-default baseline
ChangedSlots(a) ==
    {s \in DOMAIN a : a[s] # initialAssignment(preds, opts.topk)[s]}

\* the assignments evaluated so far: those of the cached results and the one
\* of the latest call
EvaluatedAssignments ==
    {cache[key].assignment : key \in DOMAIN cache}
       \cup (IF lastEval.status = "called" THEN {lastEval.assignment} ELSE {})

\* C23: as long as no evaluation reported a diagnostic on a mapped line of
\* the injected declaration, every assignment evaluated during the repair of
\* the project has the slots of the baseline and differs from the
\* all-default baseline in at most one slot, one and the same minimum-gap
\* slot for all of them.
FallbackChangesOnlyMinGapSlot ==
    NoMappedDiagnostic =>
       /\ \A a \in EvaluatedAssignments :
             DOMAIN a = DOMAIN initialAssignment(preds, opts.topk)
       /\ \E s \in MinGapSlots(preds) \cup {NoSlot} :
             \A a \in EvaluatedAssignments : ChangedSlots(a) \subseteq {s}

\* two alternatives of the minimum-gap parameter slot were evaluated under
\* the fallback while another slot with candidates was left at its default
FallbackChangesOnlyMinGapSlotWitness ==
    /\ NoMappedDiagnostic
    /\ preds = PredsTwo
    /\ pc = "done"
    /\ \E a \in EvaluatedAssignments : ChangedSlots(a) = {"f:param:0"}
    /\ Cardinality(EvaluatedAssignments) >= 2

\* C24: the run-wide cache never answers a call made for one project path
\* with a result that was computed for a different project path.
CacheHitsStayInProject ==
    (lastEval.status = "called" /\ lastEval.hit)
       => firstEval[lastEval.key].dir = lastEval.dir

\* within one project a cache hit is answered with that project's own result
CacheHitsOfOneProject ==
    (lastEval.status = "called" /\ lastEval.hit /\ Len(baselineOut) <= 1)
       => firstEval[lastEval.key].dir = lastEval.dir

\* the candidate list of a slot of the predictions
CandidatesOf(sid) == preds.slots[FindSlot(preds, sid)].candidates

\* every index of the assignment points into its slot's candidate list
IndexesValid(a) ==
    \A s \in DOMAIN a : a[s] + 1 \in 1..Len(CandidatesOf(s))

\* the same, for the slots that have a candidate at all
IndexesValidWhereCandidates(a) ==
    \A s \in DOMAIN a :
       CandidatesOf(s) # <<>> => a[s] + 1 \in 1..Len(CandidatesOf(s))

\* one evaluation of the inner loop: the assignment handed to the call
AlternativeIsCopyOfCurrent ==
    (pc = "cand" /\ evalCalls' # evalCalls) =>
       /\ slotId \in DOMAIN current.assignment
       /\ DOMAIN lastEval'.assignment = DOMAIN current.assignment
       /\ \A s \in DOMAIN current.assignment :
             lastEval'.assignment[s]
                = (IF s = slotId THEN candIdx ELSE current.assignment[s])
       /\ candIdx \in 1..(Min(opts.topk, Len(CandidatesOf(slotId))) - 1)
       /\ (iterEvals = <<>>) <=> (candIdx = 1)
       /\ pc' = "cand" => candIdx' = candIdx + 1
       /\ current' = current

\* the results stored in the cache are never altered afterwards
CachedResultsKept ==
    \A key \in DOMAIN cache :
       key \in DOMAIN cache' /\ cache'[key] = cache[key]

\* C25 as stated: every alternative is a copy of the current assignment with
\* only the selected slot changed, to the indexes 1 .. min(topK, count) - 1
\* in ascending order, cached results and the current assignment are never
\* altered, and every index of every evaluated assignment is a valid index
\* into its slot's candidate list.
AlternativesAreValidCopies ==
    [][/\ AlternativeIsCopyOfCurrent
       /\ CachedResultsKept
       /\ \A a \in EvaluatedAssignments' : IndexesValid(a)]_vars

\* C25, amended: the same, the indexes being valid for every slot that has
\* at least one candidate (a slot without candidates keeps index 0).
AlternativesAreCopiesValidWhereCandidates ==
    [][/\ AlternativeIsCopyOfCurrent
       /\ CachedResultsKept
       /\ \A a \in EvaluatedAssignments' : IndexesValidWhereCandidates(a)]_vars

\* the second alternative of a slot was evaluated in a project that also has
\* a slot without candidates
AlternativesAreCopiesWitness ==
    /\ pc \in {"cand", "iterEnd"}
    /\ lastEval.status = "called"
    /\ preds = PredsBare
    /\ candIdx = 2
    /\ Len(iterEvals) = 2
    /\ lastEval.assignment[slotId] = 2

RECURSIVE SumOver(_, _)
SumOver(f, S) ==
    IF S = {} THEN 0
    ELSE LET x == CHOOSE y \in S : TRUE
         IN f[x] + SumOver(f, S \ {x})

\* the checker invocations of the project so far, and those made after the
\* baseline evaluation
CheckerRuns == SumOver(tscRuns, DOMAIN tscRuns)

RunsBeyondBaseline == CheckerRuns - Count(tscRuns, BaselineKey)

LargestCandidateCount ==
    IF preds.slots = <<>> THEN 0
    ELSE LET n == CHOOSE i \in 1..Len(preds.slots) :
                     \A j \in 1..Len(preds.slots) :
                        Len(preds.slots[j].candidates)
                           <= Len(preds.slots[i].candidates)
         IN Len(preds.slots[n].candidates)

\* maxIters x (min(topK, largest candidate count) - 1)
RunBound == opts.maxIters * (Min(opts.topk, LargestCandidateCount) - 1)

\* an evaluation answered from the cache invokes no checker
HitsRunNoChecker ==
    (evalCalls' # evalCalls /\ lastEval'.hit) => tscRuns' = tscRuns

\* C26 as stated: repairProject terminates, runs at most maxIters
\* iterations and causes at most maxIters x (min(topK, largest candidate
\* count) - 1) checker invocations beyond the baseline one, cache hits
\* causing none.
TerminatesWithinRunBound ==
    /\ [](iter <= opts.maxIters)
    /\ [](RunsBeyondBaseline <= RunBound)
    /\ [][HitsRunNoChecker]_vars
    /\ <>(pc \in {"done", "crashed"})

\* C26, amended: the same with the bound maxIters x (min(topK, largest
\* candidate count) - 1) taken as 0 when no slot has a candidate.
TerminatesWithinRunBoundOrZero ==
    /\ [](iter <= opts.maxIters)
    /\ [](RunsBeyondBaseline <= (IF RunBound < 0 THEN 0 ELSE RunBound))
    /\ [][HitsRunNoChecker]_vars
    /\ <>(pc \in {"done", "crashed"})

\* a repair that used all its iterations and as many checker invocations as
\* the bound allows
TerminatesWithinRunBoundWitness ==
    /\ pc = "done"
    /\ iter = opts.maxIters
    /\ RunBound > 0
    /\ RunsBeyondBaseline = RunBound

\* the result was returned by the return statement after the loop
ReturnedAfterLoop ==
    /\ pc = "done"
    /\ baseline.status = "type_error"
    /\ "iters" \notin DOMAIN final

\* C27: every result repairProject returns has repaired true exactly when
\* its status is success, and a result returned by the statement after the
\* loop has repaired false.
RepairedIffSuccess ==
    pc = "done" =>
       /\ final.repaired \in BOOLEAN
       /\ final.repaired <=> (final.status = "success")
       /\ ReturnedAfterLoop => ~final.repaired

\* the loop ended without an early return after an alternative had been
\* accepted
RepairedIffSuccessWitness ==
    /\ ReturnedAfterLoop
    /\ iter >= 1
    /\ final.assignment # initialAssignment(preds, opts.topk)
    /\ ~final.repaired

\* C28: in runCommand a SIGKILL is sent only after the timeout timer has
\* fired and the SIGTERM has been sent, at least one grace period after it;
\* a result produced before the timer fired has timedOut false, the timer is
\* then cancelled and no signal is ever sent; a result produced after the
\* timer fired has timedOut true.
KillOnlyAfterTimeout ==
    /\ cmd.signals # <<>> =>
          /\ cmd.timer = "fired"
          /\ cmd.signals[1].sig = "SIGTERM"
          /\ cmd.signals[1].at >= cmd.timeoutSec
    /\ \A i \in 1..Len(cmd.signals) :
          cmd.signals[i].sig = "SIGKILL" =>
             \E j \in 1..(i - 1) :
                /\ cmd.signals[j].sig = "SIGTERM"
                /\ cmd.signals[i].at >= cmd.signals[j].at + GraceSec
    /\ \A i \in 1..Len(cmd.resolves) :
          IF cmd.resolves[i].timerWas = "fired"
          THEN cmd.resolves[i].timedOut
          ELSE /\ ~cmd.resolves[i].timedOut
               /\ cmd.timer = "cleared"
               /\ cmd.signals = <<>>

\* the child outlived the timeout and the grace period: both signals were
\* sent and the result says timedOut
KillOnlyAfterTimeoutWitness ==
    /\ Len(cmd.signals) = 2
    /\ cmd.signals[2].sig = "SIGKILL"
    /\ Len(cmd.resolves) = 1
    /\ cmd.resolves[1].timedOut
    /\ cmd.resolves[1].exitCode = NullExit

\* C29: whatever the order of the close event, the error event and the
\* timer, one runCommand invocation resolves its promise at most once, and
\* exactly once as soon as close or error has occurred, appends the captured
\* output to the log at most once, and neither the result nor timedOut
\* changes after the promise was resolved.
ResolvesAtMostOnce ==
    [][/\ Len(cmd'.resolves) <= 1
       /\ Len(cmd'.appends) <= 1
       /\ (cmd'.closeEvents + cmd'.errorEvents >= 1)
             => (Len(cmd'.resolves) = 1 /\ Len(cmd'.appends) = 1)
       /\ cmd.resolved =>
             /\ cmd'.resolves = cmd.resolves
             /\ cmd'.timedOut = cmd.timedOut
             /\ cmd'.resolved]_vars

\* the timer fired, then the error event and the close event both occurred
ResolvesAtMostOnceWitness ==
    /\ cmd.started
    /\ cmd.timer = "fired"
    /\ cmd.errorEvents = 1
    /\ cmd.closeEvents = 1
    /\ Len(cmd.resolves) = 1
    /\ cmd.resolves[1].exitCode = 1

\* the function exports of the predictions, in order
FunctionExports(p) ==
    {i \in 1..Len(p.exports) : p.exports[i].kind = "function"}

\* C30: the slot-to-line map of buildDtsFromPreds holds exactly the return
\* slots of the function exports it declared, no parameter slot, and for
\* each of them commentLine is the 1-based line of the generated text with
\* that slot's marker comment and declLine = commentLine + 1 the line with
\* that function's declaration, for every evaluated assignment.
SlotLineMapMatchesText ==
    \A key \in DOMAIN cache :
       LET m == cache[key].slotLineMap
           lines == DtsLines(preds)
       IN /\ {m[i].slotId : i \in 1..Len(m)}
                = {preds.exports[e].name \o ":return" :
                      e \in FunctionExports(preds)}
          /\ Len(m) = Cardinality(FunctionExports(preds))
          /\ \A i \in 1..Len(m) :
                /\ m[i].commentLine \in 1..Len(lines)
                /\ lines[m[i].commentLine]
                      = [kind |-> "comment", text |-> m[i].slotId]
                /\ m[i].declLine = m[i].commentLine + 1
                /\ m[i].declLine \in 1..Len(lines)
                /\ lines[m[i].declLine].kind = "function"
                /\ lines[m[i].declLine].text \o ":return" = m[i].slotId
                /\ \A e \in FunctionExports(preds) :
                      \A n \in 1..Len(preds.exports[e].params) :
                         m[i].slotId # ParamSlot(preds.exports[e].name, n - 1)

\* a declaration with two functions, one with a parameter, and an export
\* that is not a function was generated and evaluated
SlotLineMapMatchesTextWitness ==
    /\ cache # <<>>
    /\ Cardinality(FunctionExports(preds)) = 2
    /\ \E e \in 1..Len(preds.exports) : preds.exports[e].kind # "function"
    /\ \E e \in FunctionExports(preds) : preds.exports[e].params # <<>>
    /\ \E key \in DOMAIN cache : Len(cache[key].slotLineMap) = 2

====
